---- MODULE Spec2Model ----
(***************************************************************************)
(* A model of the NSM (Nexus Simple Memory) core: the usage ledger         *)
(* (internal/auth/tokens.go), the archive engine and its library client    *)
(* (core engine, nsm.Client, the cobra command surface) and the bounded    *)
(* compression engine (internal/core/compression.go).                      *)
(*                                                                         *)
(* Threads are goroutines of one process.  A thread is at pc "idle"        *)
(* between calls, walks through the labels of the method it called, and    *)
(* reaches "done" when the method has returned: op[t] and ret[t] then hold *)
(* the call and its result.  Variables whose name starts with "h" are      *)
(* history variables: the program does not hold them, the properties read  *)
(* them.                                                                   *)
(***************************************************************************)
EXTENDS Integers, FiniteSets, Sequences, TLC

\* ------------------------------------------------------------------ bounds
NThreads == 2
MaxTokens == 2
MaxCalls == 3
MaxClock == 2
MaxCrashes == 1
NCallers == 3
MaxCPU == 4
MaxPooled == 1
MaxExtra == 64
NLiveCallers == 2

Threads == 1..NThreads
Callers == 1..NCallers
LiveCallers == 1..NLiveCallers

\* The Compressors a process has constructed.
Compressors == {"c1", "c2"}

\* ------------------------------------------------------- program constants
DefaultFreeTokens == 1
SimulatedSyncTokens == 5

\* Error values.  Nil is Go's nil error.
Nil == "nil"
ErrNoTokens == "no compression tokens available"
ErrValidationFailed == "token validation failed with marketplace API"
ErrPersistence == "failed to save or load token state"
ErrNotExist == "os.ErrNotExist"
ErrRead == "os.ReadFile error"

\* License keys: the empty key and one non-empty key.
Keys == {"", "lic"}

\* time.Time{}: the zero time; the clock `now` starts after it.
ZeroTime == 0

VARIABLES
    file,      \* the persisted ledger file $HOME/.nsm-tokens
    tm,        \* the process's TokenManager: [up, state]
    mu,        \* TokenManager.mu: 0 when free, else the thread holding it
    now,       \* the wall clock, as read by time.Now()
    pc,        \* pc[t]: where thread t stands
    op,        \* op[t]: the call thread t is in (or last made)
    ret,       \* ret[t]: the result of t's call: [err, n]
    loc,       \* loc[t]: the call's local values
    hist,      \* history: counts of calls and what has happened so far
    client,    \* the process's nsm.Client: [up, key, err]
    engine,    \* the Client's core.Engine: its Config.TokenCount
    rw,        \* Client.mu (sync.RWMutex): [w, r], the writer and the readers
    direct,    \* a core.Engine used directly (as the tests do): [up, TokenCount]
    archive,   \* the output path of Create: "absent" or "written"
    ncpu,         \* runtime.NumCPU()
    workerPool,   \* workerPool[c]: the permits held in Compressor c's channel
    zstdEncoder,  \* zstdEncoder[c]: the encoders resting in c's sync.Pool
    zstdDecoder,  \* zstdDecoder[c]: the decoders resting in c's sync.Pool
                  \*   (each of them has been closed before it was put)
    job,          \* job[k]: the Compress/Decompress call of caller k, and
                  \*   the Compressor k calls
    stream,       \* the bytes of the io.Reader handed to ReadHeader
    rd,           \* the outcome of ReadHeader on stream:
                  \*   [done, err, cause, nil, h, n]
    wr            \* the Header handed to WriteHeader and the outcome of
                  \*   the call: [given, h, done, err, n]

ledgerVars == <<file, tm, mu, now>>
threadVars == <<pc, op, ret, loc>>
clientVars == <<client, engine, rw, direct, archive>>
codecVars == <<ncpu, workerPool, zstdEncoder, zstdDecoder, job>>
formatVars == <<stream, rd, wr>>

vars == <<file, tm, mu, now, pc, op, ret, loc, hist, client, engine, rw,
          direct, archive, ncpu, workerPool, zstdEncoder, zstdDecoder, job,
          stream, rd, wr>>

\* What the compression engine's steps leave alone.
otherVars == <<ledgerVars, threadVars, hist, clientVars, formatVars>>

\* No header has been read.
NoRead == [done |-> FALSE, err |-> "none", cause |-> "none", nil |-> TRUE,
           h |-> <<>>, n |-> 0]
\* No header has been handed to WriteHeader.
NoWrite == [given |-> FALSE, h |-> <<>>, done |-> FALSE, err |-> "none", n |-> 0]
NoStream == stream = <<>> /\ rd = NoRead /\ wr = NoWrite

\* A caller of Compressor c that is in no Compress/Decompress call.  In a
\* call, err and n are what it returns and cause is the error that a stream
\* or a codec object gave it ("none" while none has).
NoJob(c) == [pc |-> "idle", c |-> c, dir |-> "none", alg |-> "none",
             held |-> "none", err |-> "none", n |-> 0, wrote |-> FALSE,
             cause |-> "none"]

\* The Compressors as NewCompressor returns them: empty channel, empty pools.
NewPools ==
    /\ workerPool = [c \in Compressors |-> 0]
    /\ zstdEncoder = [c \in Compressors |-> 0]
    /\ zstdDecoder = [c \in Compressors |-> 0]
    /\ job = [k \in Callers |-> NoJob("c1")]

\* ------------------------------------------------------------- the ledger

\* TokenState, the structure saved to the file (tokens.go).
TokenState(k, n, s) == [LicenseKey |-> k, AvailableTokens |-> n, LastSync |-> s]

ZeroState == TokenState("", 0, ZeroTime)

\* What the file system holds at the ledger path.  "state": a JSON object of a
\* TokenState, as json.MarshalIndent writes it and json.Unmarshal reads it
\* back; "corrupt": bytes that do not parse (an emptied or torn file);
\* "unreadable": a file os.ReadFile cannot read; "absent": no file.
AbsentFile == [kind |-> "absent", st |-> ZeroState]
CorruptFile == [kind |-> "corrupt", st |-> ZeroState]
UnreadableFile == [kind |-> "unreadable", st |-> ZeroState]
StateFile(st) == [kind |-> "state", st |-> st]

\* The outcomes of os.WriteFile(path, data, 0600): "ok"; "open": the open
\* fails and the file is as it was; "trunc": the file is opened (and so
\* truncated) and the write fails, leaving bytes that do not parse.
WriteOutcomes == {"ok", "open", "trunc"}

NoRet == [err |-> "none", n |-> 0]
NoLoc == [net |-> FALSE, pre |-> 0, preE |-> 0, arg |-> "none"]

\* saveState: marshal (cannot fail for a TokenState) and write the file.
saveState(st, f, w) ==
    CASE w = "ok" -> [err |-> Nil, file |-> StateFile(st)]
      [] w = "open" -> [err |-> ErrPersistence, file |-> f]
      [] OTHER -> [err |-> ErrPersistence, file |-> CorruptFile]

\* loadState: read and parse the file; on success the parsed state replaces
\* tm.state, on failure tm.state is as it was.
loadState(st, f) ==
    CASE f.kind = "absent" -> [err |-> ErrNotExist, state |-> st]
      [] f.kind = "unreadable" -> [err |-> ErrRead, state |-> st]
      [] f.kind = "corrupt" -> [err |-> ErrPersistence, state |-> st]
      [] OTHER -> [err |-> Nil, state |-> f.st]

\* The license key given by flag overrides the one loaded (in memory only).
OverrideKey(st, licenseKey) ==
    IF licenseKey # "" /\ st.LicenseKey # licenseKey
    THEN [st EXCEPT !.LicenseKey = licenseKey]
    ELSE st

\* NewTokenManager with a slip: a loaded count of zero is seeded again.
NewTokenManagerReseeding(f, licenseKey, w, t) ==
    LET ld == loadState(TokenState(licenseKey, 0, ZeroTime), f)
        seeded == [ld.state EXCEPT !.AvailableTokens = DefaultFreeTokens,
                                   !.LastSync = t]
    IN  IF ld.err = Nil /\ ld.state.AvailableTokens > 0
        THEN [err |-> Nil, up |-> TRUE,
              state |-> OverrideKey(ld.state, licenseKey), file |-> f]
        ELSE IF ld.err \in {Nil, ErrNotExist}
        THEN LET sv == saveState(seeded, f, w)
             IN  [err |-> sv.err, up |-> sv.err = Nil,
                  state |-> IF sv.err = Nil THEN OverrideKey(seeded, licenseKey)
                            ELSE ZeroState,
                  file |-> sv.file]
        ELSE [err |-> ld.err, up |-> FALSE, state |-> ZeroState, file |-> f]

\* NewTokenManager that fails open: any failure to load, not only a missing
\* file, is taken for a first run and seeded.
NewTokenManagerFailingOpen(f, licenseKey, w, t) ==
    LET st0 == TokenState(licenseKey, 0, ZeroTime)
        ld == loadState(st0, f)
        seeded == [st0 EXCEPT !.AvailableTokens = DefaultFreeTokens,
                              !.LastSync = t]
        sv == saveState(seeded, f, w)
    IN  IF ld.err # Nil
        THEN IF sv.err # Nil
             THEN [err |-> sv.err, up |-> FALSE, state |-> ZeroState,
                   file |-> sv.file]
             ELSE [err |-> Nil, up |-> TRUE,
                   state |-> OverrideKey(seeded, licenseKey), file |-> sv.file]
        ELSE [err |-> Nil, up |-> TRUE,
              state |-> OverrideKey(ld.state, licenseKey), file |-> f]

\* NewTokenManager(homeDir, licenseKey): [err, up, state, file].  `up` says
\* whether a manager is returned and `state` is then its state; `file` is
\* the file afterwards.  w is the outcome of the write, t the clock.
NewTokenManager(f, licenseKey, w, t) ==
    LET st0 == TokenState(licenseKey, 0, ZeroTime)
        ld == loadState(st0, f)
        seeded == [st0 EXCEPT !.AvailableTokens = DefaultFreeTokens,
                              !.LastSync = t]
    IN  IF ld.err # Nil
        THEN IF ld.err = ErrNotExist
             THEN LET sv == saveState(seeded, f, w)
                  IN  IF sv.err # Nil
                      THEN [err |-> sv.err, up |-> FALSE, state |-> ZeroState,
                            file |-> sv.file]
                      ELSE [err |-> Nil, up |-> TRUE,
                            state |-> OverrideKey(seeded, licenseKey),
                            file |-> sv.file]
             ELSE [err |-> ld.err, up |-> FALSE, state |-> ZeroState, file |-> f]
        ELSE [err |-> Nil, up |-> TRUE,
              state |-> OverrideKey(ld.state, licenseKey), file |-> f]

\* ConsumeToken's check with a slip: a count of zero passes.
NoTokensLeftOffByOne(st) == st.AvailableTokens < 0

\* ConsumeToken's check: tm.state.AvailableTokens <= 0
NoTokensLeft(st) == st.AvailableTokens <= 0

\* ConsumeToken's debit with a slip: the sync time is cleared as well.
DebitResettingSync(st) ==
    [st EXCEPT !.AvailableTokens = @ - 1, !.LastSync = ZeroTime]

\* ConsumeToken's debit: tm.state.AvailableTokens--
Debit(st) == [st EXCEPT !.AvailableTokens = @ - 1]

\* ConsumeToken as one call (its body runs under tm.mu): [err, state, file].
ConsumeToken(st, f, w) ==
    IF NoTokensLeft(st)
    THEN [err |-> ErrNoTokens, state |-> st, file |-> f]
    ELSE LET sv == saveState(Debit(st), f, w)
         IN  [err |-> sv.err, state |-> Debit(st), file |-> sv.file]

\* ------------------------------------------------ the ledger's operations

\* The clock after a time.Now(): it advances, up to the model's last instant.
Tick(t) == IF t < MaxClock THEN t + 1 ELSE t

\* A mutex that excludes nobody.
MuFreeAlways(m) == TRUE

\* sync.Mutex: Lock proceeds when the mutex is free.

MuFree(m) == m = 0

SetPc(t, l) == pc' = [pc EXCEPT ![t] = l]
SetRet(t, e, n) == ret' = [ret EXCEPT ![t] = [err |-> e, n |-> n]]

Clean == ~hist.synced /\ ~hist.wfail /\ hist.crashes = 0

\* The process starts: NewTokenManager(homeDir, licenseKey) runs before any
\* thread uses the manager.
Start ==
    /\ ~tm.up
    /\ \E k \in Keys, w \in WriteOutcomes :
          LET r == NewTokenManager(file, k, w, now)
          IN  /\ tm' = [up |-> r.up, state |-> r.state, err |-> r.err]
              /\ file' = r.file
              /\ now' = IF file.kind = "absent" THEN Tick(now) ELSE now
              /\ hist' = [hist EXCEPT !.wfail = @ \/ (r.err = ErrPersistence /\ file.kind = "absent")]
    /\ UNCHANGED <<mu, pc, op, ret, loc>>

\* The process dies: memory is lost, the file stays.
Crash ==
    /\ tm.up
    /\ hist.crashes < MaxCrashes
    /\ tm' = [up |-> FALSE, state |-> ZeroState, err |-> "none"]
    /\ mu' = 0
    /\ pc' = [t \in Threads |-> "idle"]
    /\ op' = [t \in Threads |-> "none"]
    /\ ret' = [t \in Threads |-> NoRet]
    /\ loc' = [t \in Threads |-> NoLoc]
    /\ hist' = [hist EXCEPT !.crashes = @ + 1]
    /\ UNCHANGED <<file, now>>

\* tm.mu.Lock() at the head of every method: the caller goes on when the
\* mutex is free, and holds it until the method returns.
Lock(t, first) ==
    /\ tm.up /\ pc[t] = "idle"
    /\ hist.calls < MaxCalls
    /\ MuFree(mu)
    /\ mu' = t
    /\ SetPc(t, first)

\* A thread calls a method of the manager; loc[t].pre keeps the count the
\* method finds when it has the mutex.
CallConsumeToken(t) ==
    /\ Lock(t, "ct_check")
    /\ op' = [op EXCEPT ![t] = "ConsumeToken"]
    /\ loc' = [loc EXCEPT ![t].pre = tm.state.AvailableTokens]
    /\ hist' = [hist EXCEPT !.calls = @ + 1, !.started = @ + 1]
    /\ UNCHANGED <<file, tm, now, ret>>

CallAvailableTokens(t) ==
    /\ Lock(t, "av_read")
    /\ op' = [op EXCEPT ![t] = "AvailableTokens"]
    /\ hist' = [hist EXCEPT !.calls = @ + 1]
    /\ UNCHANGED <<file, tm, now, ret, loc>>

\* net: whether the remote authority can be reached during the call.
CallValidateOnline(t) ==
    /\ Lock(t, "vo_check")
    /\ op' = [op EXCEPT ![t] = "ValidateOnline"]
    /\ \E up \in BOOLEAN :
          loc' = [loc EXCEPT ![t].net = up, ![t].pre = tm.state.AvailableTokens]
    /\ hist' = [hist EXCEPT !.calls = @ + 1]
    /\ UNCHANGED <<file, tm, now, ret>>

\* ConsumeToken: if tm.state.AvailableTokens <= 0 { return ErrNoTokens }
CtCheck(t) ==
    /\ pc[t] = "ct_check"
    /\ IF NoTokensLeft(tm.state)
       THEN SetRet(t, ErrNoTokens, 0) /\ SetPc(t, "unlock")
       ELSE UNCHANGED ret /\ SetPc(t, "ct_dec")
    /\ UNCHANGED <<file, tm, mu, now, op, loc, hist>>

\* ConsumeToken: tm.state.AvailableTokens--
CtDec(t) ==
    /\ pc[t] = "ct_dec"
    /\ tm' = [tm EXCEPT !.state = Debit(@)]
    /\ SetPc(t, "ct_save")
    /\ UNCHANGED <<file, mu, now, op, ret, loc, hist>>

\* ConsumeToken with a slip: success is returned before anything is written.
CtSaveUnwritten(t) ==
    /\ pc[t] = "ct_save"
    /\ SetRet(t, Nil, 0)
    /\ SetPc(t, "unlock")
    /\ UNCHANGED <<file, tm, mu, now, op, loc, hist>>

\* ConsumeToken: return tm.saveState()
CtSave(t) ==
    /\ pc[t] = "ct_save"
    /\ \E w \in WriteOutcomes :
          LET sv == saveState(tm.state, file, w)
          IN  /\ file' = sv.file
              /\ SetRet(t, sv.err, 0)
              /\ hist' = [hist EXCEPT !.wfail = @ \/ sv.err # Nil]
    /\ SetPc(t, "unlock")
    /\ UNCHANGED <<tm, mu, now, op, loc>>

\* AvailableTokens: return tm.state.AvailableTokens
AvRead(t) ==
    /\ pc[t] = "av_read"
    /\ SetRet(t, Nil, tm.state.AvailableTokens)
    /\ SetPc(t, "unlock")
    /\ UNCHANGED <<file, tm, mu, now, op, loc, hist>>

\* ValidateOnline: without a license key, return nil; with one, the
\* simulated sync sets the count to 5 and the sync time to time.Now().  No
\* request is made: the outcome does not depend on the remote authority.
VoCheck(t) ==
    /\ pc[t] = "vo_check"
    /\ IF tm.state.LicenseKey = ""
       THEN /\ SetRet(t, Nil, 0) /\ SetPc(t, "unlock")
            /\ UNCHANGED <<tm, now, hist>>
       ELSE /\ tm' = [tm EXCEPT !.state.AvailableTokens = SimulatedSyncTokens,
                                !.state.LastSync = now]
            /\ now' = Tick(now)
            /\ hist' = [hist EXCEPT !.synced = TRUE]
            /\ SetPc(t, "vo_save")
            /\ UNCHANGED ret
    /\ UNCHANGED <<file, mu, op, loc>>

\* ValidateOnline: return tm.saveState()
VoSave(t) ==
    /\ pc[t] = "vo_save"
    /\ \E w \in WriteOutcomes :
          LET sv == saveState(tm.state, file, w)
          IN  /\ file' = sv.file
              /\ SetRet(t, sv.err, 0)
              /\ hist' = [hist EXCEPT !.wfail = @ \/ sv.err # Nil]
    /\ SetPc(t, "unlock")
    /\ UNCHANGED <<tm, mu, now, op, loc>>

\* The deferred tm.mu.Unlock() and the return to the caller.
Unlock(t) ==
    /\ pc[t] = "unlock"
    /\ mu' = 0
    /\ SetPc(t, "done")
    /\ hist' = IF op[t] = "ConsumeToken" /\ ret[t].err = Nil
               THEN [hist EXCEPT !.acked = @ + 1]
               ELSE hist
    /\ UNCHANGED <<file, tm, now, op, ret, loc>>

\* The caller has its result and goes on.
Finish(t) ==
    /\ pc[t] = "done"
    /\ SetPc(t, "idle")
    /\ op' = [op EXCEPT ![t] = "none"]
    /\ ret' = [ret EXCEPT ![t] = NoRet]
    /\ loc' = [loc EXCEPT ![t] = NoLoc]
    /\ UNCHANGED <<file, tm, mu, now, hist>>

NoClient == [up |-> FALSE, key |-> "", err |-> "none"]
FreeRW == [w |-> 0, r |-> {}]
NoEngine == [up |-> FALSE, TokenCount |-> 0]

\* The files a process may find at the ledger path when it first starts.
InitFiles ==
    {AbsentFile, CorruptFile, UnreadableFile}
        \cup {StateFile(TokenState(k, n, ZeroTime)) : k \in Keys, n \in 0..MaxTokens}

\* The count a manager built over file f starts with.
FirstCount(f) == IF f.kind = "state" THEN f.st.AvailableTokens ELSE DefaultFreeTokens

InitLedger ==
    /\ file \in InitFiles
    /\ tm = [up |-> FALSE, state |-> ZeroState, err |-> "none"]
    /\ mu = 0
    /\ now = 1
    /\ pc = [t \in Threads |-> "idle"]
    /\ op = [t \in Threads |-> "none"]
    /\ ret = [t \in Threads |-> NoRet]
    /\ loc = [t \in Threads |-> NoLoc]
    /\ hist = [calls |-> 0, started |-> 0, acked |-> 0, n0 |-> FirstCount(file),
               synced |-> FALSE, wfail |-> FALSE, crashes |-> 0,
               dN0 |-> 0, dCalls |-> 0, dOk |-> 0, dPass |-> 0]
    /\ client = NoClient
    /\ engine = 0
    /\ rw = FreeRW
    /\ direct = NoEngine
    /\ archive = "absent"
    /\ ncpu = 1
    /\ NewPools
    /\ NoStream

NextLedger ==
    /\ \/ Start
       \/ Crash
       \/ \E t \in Threads :
             \/ CallConsumeToken(t)
             \/ CallAvailableTokens(t)
             \/ CallValidateOnline(t)
             \/ CtCheck(t)
             \/ CtDec(t)
             \/ CtSave(t)
             \/ AvRead(t)
             \/ VoCheck(t)
             \/ VoSave(t)
             \/ Unlock(t)
             \/ Finish(t)
    /\ UNCHANGED <<clientVars, codecVars, formatVars>>

SpecLedger == InitLedger /\ [][NextLedger]_vars

\* ------------------------------------------------- the ledger's properties

Min(a, b) == IF a < b THEN a ELSE b

\* No ConsumeToken call is under way.
NoConsumeInFlight ==
    \A t \in Threads : pc[t] \in {"idle", "done"} \/ op[t] # "ConsumeToken"

\* C4: ConsumeToken is an atomic check-and-decrement.  With n0 tokens at the
\* start and k ConsumeToken calls made by concurrent threads (no
\* ValidateOnline, no failed write, no crash), once the calls have returned
\* exactly min(k, n0) have succeeded, every other one has returned
\* ErrNoTokens, and the count is n0 - min(k, n0).
C4_AtomicCheckAndDecrement ==
    (tm.up /\ Clean /\ NoConsumeInFlight) =>
        /\ hist.acked = Min(hist.started, hist.n0)
        /\ tm.state.AvailableTokens = hist.n0 - hist.acked
        /\ \A t \in Threads :
              (pc[t] = "done" /\ op[t] = "ConsumeToken")
                  => ret[t].err \in {Nil, ErrNoTokens}

\* C4's case: more callers than tokens; one has succeeded and a later one
\* has been refused.
C4_Witness ==
    /\ tm.up /\ Clean /\ NoConsumeInFlight
    /\ hist.n0 = 1 /\ hist.started >= 2 /\ hist.acked = 1
    /\ \E t \in Threads :
          pc[t] = "done" /\ op[t] = "ConsumeToken" /\ ret[t].err = ErrNoTokens

\* C5: persist before acknowledge.  Whatever the moment (so at any crash
\* point, and after any restart), as long as no ValidateOnline has reset the
\* count, a readable ledger file holds at most the initial count minus the
\* number of ConsumeToken calls that have returned success.
C5_PersistBeforeAcknowledge ==
    (~hist.synced /\ file.kind = "state")
        => file.st.AvailableTokens <= hist.n0 - hist.acked

\* C5's case: a call was acknowledged, the process crashed and came back.
C5_Witness ==
    /\ ~hist.synced /\ file.kind = "state"
    /\ hist.acked >= 1 /\ hist.crashes >= 1 /\ tm.up
    /\ tm.state.AvailableTokens = hist.n0 - hist.acked

\* C8 (the claim as stated): a ValidateOnline call made while the remote
\* authority cannot be reached changes neither the manager's state nor the
\* file, and returns an error.
C8_OfflineValidateLeavesStateUntouched ==
    [][\A t \in Threads :
          (/\ op[t] = "ValidateOnline" /\ ~loc[t].net
           /\ pc[t] \in {"vo_check", "vo_save"}
           /\ pc'[t] \in {"vo_save", "unlock"})
              => /\ tm' = tm
                 /\ file' = file
                 /\ (pc'[t] = "unlock" => ret'[t].err # Nil)]_vars

\* C9: first-run seeding.  A start over an absent file that returns a manager
\* gives it DefaultFreeTokens and leaves that state in the file; a start over
\* a readable file returns a manager holding the stored count, zero
\* included, and leaves the file as it was.
C9_FirstRunSeeding ==
    [][(~tm.up /\ tm' # tm) =>
          /\ (file.kind = "absent" /\ tm'.up) =>
                /\ tm'.state.AvailableTokens = DefaultFreeTokens
                /\ file' = StateFile(tm'.state)
          /\ file.kind = "state" =>
                /\ tm'.up
                /\ tm'.state.AvailableTokens = file.st.AvailableTokens
                /\ file' = file]_vars

\* C9's case: the free token was used, the process restarted over the stored
\* count of zero, and the manager holds zero.
C9_Witness ==
    /\ tm.up /\ hist.crashes >= 1 /\ hist.acked >= 1 /\ ~hist.synced
    /\ file.kind = "state" /\ file.st.AvailableTokens = 0
    /\ tm.state.AvailableTokens = 0
    /\ hist.n0 = DefaultFreeTokens

\* ------------------------------------------------------ the archive engine

ErrNilConfig == "engine configuration cannot be nil"
ErrEngineNoTokens == "no tokens available. Please buy more tokens using 'nsm buy-tokens'"
ErrCreateNotImplemented == "Create function not fully implemented"
ErrExtractNotImplemented == "Extract function not fully implemented"
ErrSearchNotImplemented == "Search function not fully implemented"
ErrHomeDir == "failed to get user home directory"
ErrNoLicenseKey == "a license key is required to buy tokens"
ErrCountNotPositive == "token count must be positive"
ErrHttpRequest == "failed to create http request"
ErrMarketplace == "failed to communicate with marketplace"
ErrMarketplaceStatus == "marketplace returned an error (status N)"
ErrDecodePurchase == "failed to decode purchase response"

\* What becomes of the request of InitiatePurchase: http.NewRequest refuses
\* the endpoint, the request gets no answer, the answer has a status other
\* than 200, its body does not decode, or it is a PurchaseResponse.
PurchaseOutcomes == {"bad endpoint", "no answer", "status", "undecodable", "ok"}

\* MarketplaceClient.InitiatePurchase(count), the error it returns.
InitiatePurchase(count, o) ==
    CASE count <= 0 -> ErrCountNotPositive
      [] o = "bad endpoint" -> ErrHttpRequest
      [] o = "no answer" -> ErrMarketplace
      [] o = "status" -> ErrMarketplaceStatus
      [] o = "undecodable" -> ErrDecodePurchase
      [] OTHER -> Nil

\* NewEngine without the free token: a TokenCount of 0 stays 0.
NewEngineNoFreeToken(isNil, tc) ==
    IF isNil
    THEN [err |-> ErrNilConfig, TokenCount |-> 0]
    ELSE [err |-> Nil, TokenCount |-> tc]

\* NewEngine(cfg): a nil configuration is refused; a TokenCount of 0 becomes
\* one free token.
NewEngine(isNil, tc) ==
    IF isNil
    THEN [err |-> ErrNilConfig, TokenCount |-> 0]
    ELSE [err |-> Nil, TokenCount |-> IF tc = 0 THEN 1 ELSE tc]

\* Engine.useToken on a configuration holding tc tokens: [err, TokenCount].
useToken(tc) ==
    IF tc <= 0
    THEN [err |-> ErrEngineNoTokens, TokenCount |-> tc]
    ELSE [err |-> Nil, TokenCount |-> tc - 1]

\* Engine.Create that takes two tokens for one archive.
EngineCreateChargingTwice(tc) ==
    [err |-> IF useToken(tc).err # Nil THEN useToken(tc).err
             ELSE ErrCreateNotImplemented,
     TokenCount |-> IF useToken(tc).err # Nil THEN tc ELSE tc - 2,
     wrote |-> FALSE]

\* Engine.Create(outputFile, inputFiles): [err, TokenCount, wrote].  After
\* useToken the body is a plan in comments: nothing is opened or written,
\* and the call returns the "not fully implemented" error.
EngineCreate(tc) ==
    LET u == useToken(tc)
    IN  IF u.err # Nil
        THEN [err |-> u.err, TokenCount |-> u.TokenCount, wrote |-> FALSE]
        ELSE [err |-> ErrCreateNotImplemented, TokenCount |-> u.TokenCount,
              wrote |-> FALSE]

\* Engine.Extract that charges a token.
EngineExtractCharging(tc) ==
    [err |-> ErrExtractNotImplemented, TokenCount |-> useToken(tc).TokenCount]

\* Engine.Extract(archiveFile, destinationPath): logs and returns the "not
\* fully implemented" error; the configuration is not touched.
EngineExtract(tc) == [err |-> ErrExtractNotImplemented, TokenCount |-> tc]

\* Engine.Search(archiveFile, query): likewise.
EngineSearch(tc) == [err |-> ErrSearchNotImplemented, TokenCount |-> tc]

\* ---------------------------------------------------------- the Client

\* sync.RWMutex: Lock waits for the writer and the readers to leave, RLock
\* for the writer.
\* A Lock that waits for the writer only.
CanLockIgnoringReaders(m) == m.w = 0

CanLock(m) == m.w = 0 /\ m.r = {}
CanRLock(m) == m.w = 0

Budget == hist.calls < MaxCalls
Spend == [hist EXCEPT !.calls = @ + 1]

\* NewClient(cfg): the home directory, the token manager, then an engine
\* whose TokenCount is the manager's AvailableTokens().
NewClient ==
    /\ ~client.up /\ ~direct.up
    /\ \E k \in Keys, w \in WriteOutcomes, home \in BOOLEAN :
          LET r == NewTokenManager(file, k, w, now)
              e == NewEngine(FALSE, r.state.AvailableTokens)
          IN  IF ~home
              THEN /\ client' = [NoClient EXCEPT !.err = ErrHomeDir]
                   /\ UNCHANGED <<file, tm, now, engine>>
              ELSE /\ file' = r.file
                   /\ now' = IF file.kind = "absent" THEN Tick(now) ELSE now
                   /\ client' = IF r.up THEN [up |-> TRUE, key |-> k, err |-> Nil]
                                ELSE [NoClient EXCEPT !.err = r.err]
                   /\ tm' = [up |-> r.up, state |-> r.state, err |-> r.err]
                   /\ engine' = IF r.up THEN e.TokenCount ELSE engine
    /\ UNCHANGED <<mu, rw, direct, archive, pc, op, ret, loc, hist>>

\* The Client's process dies.
ClientCrash ==
    /\ client.up
    /\ hist.crashes < MaxCrashes
    /\ client' = NoClient
    /\ tm' = [up |-> FALSE, state |-> ZeroState, err |-> "none"]
    /\ engine' = 0
    /\ rw' = FreeRW
    /\ mu' = 0
    /\ pc' = [t \in Threads |-> "idle"]
    /\ op' = [t \in Threads |-> "none"]
    /\ ret' = [t \in Threads |-> NoRet]
    /\ loc' = [t \in Threads |-> NoLoc]
    /\ hist' = [hist EXCEPT !.crashes = @ + 1]
    /\ UNCHANGED <<file, now, direct, archive>>

\* Client.Create: c.mu.Lock()
ClCreateLock(t) ==
    /\ client.up /\ pc[t] = "idle" /\ Budget
    /\ CanLock(rw)
    /\ rw' = [rw EXCEPT !.w = t]
    /\ SetPc(t, "cc_consume")
    /\ op' = [op EXCEPT ![t] = "Client.Create"]
    /\ loc' = [loc EXCEPT ![t].pre = tm.state.AvailableTokens, ![t].preE = engine]
    /\ hist' = Spend
    /\ UNCHANGED <<ledgerVars, ret, client, engine, direct, archive>>

\* Client.Create: c.tokenManager.ConsumeToken(); an error is returned
\* wrapped ("token required for 'create' operation: %w").
ClCreateConsume(t) ==
    /\ pc[t] = "cc_consume"
    /\ MuFree(mu)
    /\ \E w \in WriteOutcomes :
          LET r == ConsumeToken(tm.state, file, w)
          IN  /\ tm' = [tm EXCEPT !.state = r.state]
              /\ file' = r.file
              /\ IF r.err # Nil
                 THEN SetRet(t, r.err, 0) /\ SetPc(t, "c_ret")
                 ELSE UNCHANGED ret /\ SetPc(t, "cc_engine")
    /\ UNCHANGED <<mu, now, op, loc, hist, clientVars>>

\* Client.Create: return c.engine.Create(outputFile, inputFiles)
ClCreateEngine(t) ==
    /\ pc[t] = "cc_engine"
    /\ LET r == EngineCreate(engine)
       IN  /\ engine' = r.TokenCount
           /\ archive' = IF r.wrote THEN "written" ELSE archive
           /\ SetRet(t, r.err, 0)
    /\ SetPc(t, "c_ret")
    /\ UNCHANGED <<ledgerVars, op, loc, hist, client, rw, direct>>

\* Client.Extract: c.mu.RLock()
ClExtractLock(t) ==
    /\ client.up /\ pc[t] = "idle" /\ Budget
    /\ CanRLock(rw)
    /\ rw' = [rw EXCEPT !.r = @ \cup {t}]
    /\ SetPc(t, "cx_engine")
    /\ op' = [op EXCEPT ![t] = "Client.Extract"]
    /\ hist' = Spend
    /\ UNCHANGED <<ledgerVars, ret, loc, client, engine, direct, archive>>

\* Client.Extract: return c.engine.Extract(archiveFile, destinationPath)
ClExtractEngine(t) ==
    /\ pc[t] = "cx_engine"
    /\ LET r == EngineExtract(engine)
       IN  engine' = r.TokenCount /\ SetRet(t, r.err, 0)
    /\ SetPc(t, "c_ret")
    /\ UNCHANGED <<ledgerVars, op, loc, hist, client, rw, direct, archive>>

\* Client.Search: c.mu.RLock()
ClSearchLock(t) ==
    /\ client.up /\ pc[t] = "idle" /\ Budget
    /\ CanRLock(rw)
    /\ rw' = [rw EXCEPT !.r = @ \cup {t}]
    /\ SetPc(t, "cs_engine")
    /\ op' = [op EXCEPT ![t] = "Client.Search"]
    /\ hist' = Spend
    /\ UNCHANGED <<ledgerVars, ret, loc, client, engine, direct, archive>>

\* Client.Search: return c.engine.Search(archiveFile, query)
ClSearchEngine(t) ==
    /\ pc[t] = "cs_engine"
    /\ LET r == EngineSearch(engine)
       IN  engine' = r.TokenCount /\ SetRet(t, r.err, 0)
    /\ SetPc(t, "c_ret")
    /\ UNCHANGED <<ledgerVars, op, loc, hist, client, rw, direct, archive>>

\* Client.BuyTokens: c.mu.RLock()
ClBuyLock(t) ==
    /\ client.up /\ pc[t] = "idle" /\ Budget
    /\ CanRLock(rw)
    /\ rw' = [rw EXCEPT !.r = @ \cup {t}]
    /\ SetPc(t, "cb_purchase")
    /\ op' = [op EXCEPT ![t] = "Client.BuyTokens"]
    /\ hist' = Spend
    /\ UNCHANGED <<ledgerVars, ret, loc, client, engine, direct, archive>>

\* Client.BuyTokens(count): a license key is required; the error of
\* InitiatePurchase is returned as it is.  Nothing of the ledger or the
\* engine is touched.
ClBuyPurchase(t) ==
    /\ pc[t] = "cb_purchase"
    /\ \E count \in {0, 1}, o \in PurchaseOutcomes :
          SetRet(t, IF client.key = "" THEN ErrNoLicenseKey
                    ELSE InitiatePurchase(count, o), 0)
    /\ SetPc(t, "c_ret")
    /\ UNCHANGED <<ledgerVars, op, loc, hist, clientVars>>

\* The deferred c.mu.Unlock() / c.mu.RUnlock() and the return.
ClReturn(t) ==
    /\ pc[t] = "c_ret"
    /\ rw' = [w |-> IF rw.w = t THEN 0 ELSE rw.w, r |-> rw.r \ {t}]
    /\ SetPc(t, "done")
    /\ UNCHANGED <<ledgerVars, op, ret, loc, hist, client, engine, direct, archive>>

\* Client.AvailableTokens: no client lock; the manager's own mutex.
ClAvailableTokens(t) ==
    /\ client.up /\ pc[t] = "idle" /\ Budget
    /\ MuFree(mu)
    /\ SetRet(t, Nil, tm.state.AvailableTokens)
    /\ SetPc(t, "done")
    /\ op' = [op EXCEPT ![t] = "Client.AvailableTokens"]
    /\ hist' = Spend
    /\ UNCHANGED <<ledgerVars, loc, clientVars>>

\* ------------------------------------- direct use and the command surface

\* A process is either a user of the library Client (direct.up is FALSE) or
\* one that builds Engines itself: a test, or the command line.

\* Engine.Create and Engine.useToken take no lock, and Config.TokenCount is
\* a plain int: when several goroutines call Create on one Engine, the test
\* of line 151 and the read and the write of the decrement of line 155 are
\* separate accesses that interleave freely.

\* engine.Create(outputFile, inputFiles) begins: e.useToken() is entered.
CallCreate(t) ==
    /\ direct.up /\ pc[t] = "idle" /\ Budget
    /\ SetPc(t, "ut_check")
    /\ op' = [op EXCEPT ![t] = "Engine.Create"]
    /\ hist' = [Spend EXCEPT !.dCalls = @ + 1]
    /\ UNCHANGED <<ledgerVars, ret, loc, clientVars>>

\* useToken: if e.config.TokenCount <= 0 { return errors.New(...) }, which
\* Create returns as it is.
UtCheck(t) ==
    /\ pc[t] = "ut_check"
    /\ IF useToken(direct.TokenCount).err # Nil
       THEN SetRet(t, useToken(direct.TokenCount).err, 0) /\ SetPc(t, "done")
       ELSE UNCHANGED ret /\ SetPc(t, "ut_load")
    /\ UNCHANGED <<ledgerVars, op, loc, hist, clientVars>>

\* useToken: e.config.TokenCount--, the read.
UtLoad(t) ==
    /\ pc[t] = "ut_load"
    /\ loc' = [loc EXCEPT ![t].pre = direct.TokenCount]
    /\ SetPc(t, "ut_store")
    /\ UNCHANGED <<ledgerVars, op, ret, hist, clientVars>>

\* useToken: e.config.TokenCount--, the write; useToken returns nil.
UtStore(t) ==
    /\ pc[t] = "ut_store"
    /\ direct' = [direct EXCEPT !.TokenCount = loc[t].pre - 1]
    /\ hist' = [hist EXCEPT !.dPass = @ + 1]
    /\ SetPc(t, "ec_body")
    /\ UNCHANGED <<ledgerVars, op, ret, loc, client, engine, rw, archive>>

\* Create after useToken: the log line, the plan in comments, and the
\* "not fully implemented" error.
EcBody(t) ==
    /\ pc[t] = "ec_body"
    /\ SetRet(t, ErrCreateNotImplemented, 0)
    /\ SetPc(t, "done")
    /\ UNCHANGED <<ledgerVars, op, loc, hist, clientVars>>

\* The files a caller may hand to Extract or Search as the archive: a
\* well-formed archive holding the query's text in exactly one of its files,
\* 128 random bytes that do not begin with the magic, and a well-formed
\* archive in which one bit of the Data Block has since been flipped.
ArchiveFiles == {"archive", "garbage", "flipped"}

\* engine.Extract(archiveFile, destinationPath) on an Engine of one's own;
\* loc[t].arg is the file given (the call does not open it).
DirectExtract(t) ==
    /\ direct.up /\ pc[t] = "idle" /\ Budget
    /\ LET r == EngineExtract(direct.TokenCount)
       IN  direct' = [direct EXCEPT !.TokenCount = r.TokenCount] /\ SetRet(t, r.err, 0)
    /\ SetPc(t, "done")
    /\ op' = [op EXCEPT ![t] = "Engine.Extract"]
    /\ \E f \in ArchiveFiles : loc' = [loc EXCEPT ![t].arg = f]
    /\ hist' = Spend
    /\ UNCHANGED <<ledgerVars, client, engine, rw, archive>>

\* engine.Search(archiveFile, query) on an Engine of one's own; ret[t].n is
\* the number of paths returned (the call returns a nil slice).
DirectSearch(t) ==
    /\ direct.up /\ pc[t] = "idle" /\ Budget
    /\ LET r == EngineSearch(direct.TokenCount)
       IN  direct' = [direct EXCEPT !.TokenCount = r.TokenCount] /\ SetRet(t, r.err, 0)
    /\ SetPc(t, "done")
    /\ op' = [op EXCEPT ![t] = "Engine.Search"]
    /\ \E f \in ArchiveFiles : loc' = [loc EXCEPT ![t].arg = f]
    /\ hist' = Spend
    /\ UNCHANGED <<ledgerVars, client, engine, rw, archive>>

\* `nsm create <output.nsm> <input...>` (createCreateCmd): a fresh Engine
\* over an empty Config for every invocation, then engine.Create; the error
\* is returned wrapped ("archive creation failed: %w").  The ledger file is
\* not read.
CliCreate(t) ==
    /\ direct.up /\ pc[t] = "idle" /\ Budget
    /\ LET e == NewEngine(FALSE, 0)
           r == EngineCreate(e.TokenCount)
       IN  /\ SetRet(t, IF e.err # Nil THEN e.err ELSE r.err, 0)
           /\ archive' = IF e.err = Nil /\ r.wrote THEN "written" ELSE archive
    /\ SetPc(t, "done")
    /\ op' = [op EXCEPT ![t] = "nsm create"]
    /\ hist' = Spend
    /\ UNCHANGED <<ledgerVars, loc, client, engine, rw, direct>>

\* The TokenCount values a caller may configure its own Engine with.
DirectConfigs == (0 - 1)..MaxTokens

Init ==
    /\ file \in InitFiles
    /\ tm = [up |-> FALSE, state |-> ZeroState, err |-> "none"]
    /\ mu = 0
    /\ now = 1
    /\ pc = [t \in Threads |-> "idle"]
    /\ op = [t \in Threads |-> "none"]
    /\ ret = [t \in Threads |-> NoRet]
    /\ loc = [t \in Threads |-> NoLoc]
    /\ client = NoClient
    /\ engine = 0
    /\ rw = FreeRW
    /\ archive = "absent"
    /\ ncpu = 1
    /\ NewPools
    /\ NoStream
    /\ \/ /\ direct = NoEngine
          /\ hist = [calls |-> 0, started |-> 0, acked |-> 0,
                     n0 |-> FirstCount(file), synced |-> FALSE, wfail |-> FALSE,
                     crashes |-> 0, dN0 |-> 0, dCalls |-> 0, dOk |-> 0, dPass |-> 0]
       \/ \E n \in DirectConfigs :
             /\ direct = [up |-> TRUE, TokenCount |-> NewEngine(FALSE, n).TokenCount]
             /\ hist = [calls |-> 0, started |-> 0, acked |-> 0,
                        n0 |-> FirstCount(file), synced |-> FALSE, wfail |-> FALSE,
                        crashes |-> 0, dN0 |-> n, dCalls |-> 0, dOk |-> 0, dPass |-> 0]

Next ==
    /\ \/ NewClient
       \/ ClientCrash
       \/ \E t \in Threads :
             \/ ClCreateLock(t)
             \/ ClCreateConsume(t)
             \/ ClCreateEngine(t)
             \/ ClExtractLock(t)
             \/ ClExtractEngine(t)
             \/ ClSearchLock(t)
             \/ ClSearchEngine(t)
             \/ ClBuyLock(t)
             \/ ClBuyPurchase(t)
             \/ ClReturn(t)
             \/ ClAvailableTokens(t)
             \/ CallCreate(t)
             \/ UtCheck(t)
             \/ UtLoad(t)
             \/ UtStore(t)
             \/ EcBody(t)
             \/ DirectExtract(t)
             \/ DirectSearch(t)
             \/ CliCreate(t)
             \/ Finish(t) /\ UNCHANGED clientVars
    /\ UNCHANGED <<codecVars, formatVars>>

Spec == Init /\ [][Next]_vars

\* ------------------------------------------- properties of Create and co.

\* Thread t's Engine.Create on an Engine of its own takes the test of
\* useToken, the write of the decrement, or the rest of Create.
UtCheckStep(t) == pc[t] = "ut_check" /\ pc'[t] # pc[t]
UtStoreStep(t) == pc[t] = "ut_store" /\ pc'[t] = "ec_body"
EcBodyStep(t) == pc[t] = "ec_body" /\ pc'[t] = "done"

\* Thread t takes the step that runs the whole of `nsm create`.
CliCreateStep(t) == pc[t] = "idle" /\ op'[t] = "nsm create"

\* Thread t's Client.Create takes its ledger step, or its engine step.
ConsumeStep(t) == pc[t] = "cc_consume" /\ pc'[t] \in {"cc_engine", "c_ret"}
EngineStep(t) == pc[t] = "cc_engine" /\ pc'[t] = "c_ret"

\* C1: Create debits one token before anything is written, and a Create that
\* is denied changes nothing, on every path to Create.  In Client.Create the
\* ledger step on a count <= 0 returns the no-tokens error at once with the
\* manager, its file, the engine and the output path untouched, and on a
\* positive count takes exactly one token from the ledger; the engine step
\* that follows takes nothing more from the ledger.  Engine.Create on an
\* Engine of one's own whose test finds a count <= 0 returns the engine's
\* no-tokens error at once with the count and the output path untouched, and
\* one whose test passes lowers the count by exactly one with nothing
\* written.  A Create from the command line over a ledger file whose count
\* is zero is refused with a no-tokens error.  The output path changes only
\* in an engine step, which comes after the debit.
C1_CreateDebitsBeforeWriting ==
    [][/\ \A t \in Threads :
             /\ ConsumeStep(t) =>
                   IF tm.state.AvailableTokens <= 0
                   THEN /\ ret'[t].err = ErrNoTokens
                        /\ pc'[t] = "c_ret"
                        /\ UNCHANGED <<tm, file, engine, archive>>
                   ELSE /\ tm'.state.AvailableTokens = tm.state.AvailableTokens - 1
                        /\ UNCHANGED <<engine, archive>>
             /\ EngineStep(t) =>
                   /\ tm.state.AvailableTokens = loc[t].pre - 1
                   /\ UNCHANGED <<tm, file>>
                   /\ IF engine <= 0
                      THEN ret'[t].err = ErrEngineNoTokens /\ UNCHANGED <<engine, archive>>
                      ELSE engine' = engine - 1
             /\ UtCheckStep(t) =>
                   /\ UNCHANGED <<direct, archive>>
                   /\ IF direct.TokenCount <= 0
                      THEN ret'[t].err = ErrEngineNoTokens /\ pc'[t] = "done"
                      ELSE pc'[t] = "ut_load"
             /\ UtStoreStep(t) =>
                   /\ direct'.TokenCount = direct.TokenCount - 1
                   /\ archive' = archive
             /\ (/\ CliCreateStep(t)
                 /\ file.kind = "state" /\ file.st.AvailableTokens <= 0)
                => /\ ret'[t].err \in {ErrNoTokens, ErrEngineNoTokens}
                   /\ archive' = archive
       /\ archive' # archive =>
             \E t \in Threads :
                \/ EngineStep(t) /\ engine' = engine - 1
                \/ EcBodyStep(t)
                \/ CliCreateStep(t)]_vars

\* The number of tokens an Engine configured with n starts with.
StartTokens(n) == NewEngine(FALSE, n).TokenCount
Max(a, b) == IF a >= b THEN a ELSE b

\* C2: token metering.  On an Engine that started with N tokens, the Create
\* calls made so far have succeeded up to the N-th and failed from the
\* (N+1)-th on: the number of successes is the smaller of the number of calls
\* and N.
C2_TokenMetering ==
    direct.up =>
       hist.dOk = Min(hist.dCalls, Max(StartTokens(hist.dN0), 0))

\* C3: Extract and Search never change a token count.  No step of an Extract
\* or a Search, through the Client or on an Engine directly, whatever the
\* other threads are in the middle of, changes the ledger in memory, the
\* ledger file, or an engine's configured count.
C3_ExtractSearchKeepCounts ==
    [][\A t \in Threads :
          (/\ pc'[t] # pc[t]
           /\ op'[t] \in {"Client.Extract", "Client.Search",
                          "Engine.Extract", "Engine.Search"})
          => UNCHANGED <<tm, file, engine, direct>>]_vars

\* C3's case: with tokens available, an Extract has failed in the engine and
\* is about to return while a Search of another thread is in the engine.
C3_Witness ==
    \E t, u \in Threads :
       /\ op[t] = "Client.Extract" /\ pc[t] = "c_ret"
       /\ ret[t].err = ErrExtractNotImplemented
       /\ op[u] = "Client.Search" /\ pc[u] = "cs_engine"
       /\ tm.state.AvailableTokens > 0 /\ engine > 0
       /\ file.kind = "state" /\ file.st.AvailableTokens = tm.state.AvailableTokens

\* C6: the persisted ledger is the sole source of truth for authorisation.
\* Whenever a Create passes authorisation -- Client.Create passes its ledger
\* step, or Engine.Create on an own Engine or from the command line gets past
\* useToken -- the ledger file holds a positive available-token count.
C6_PersistedLedgerAuthorises ==
    [][\A t \in Threads :
          (\/ pc[t] = "cc_consume" /\ pc'[t] = "cc_engine"
           \/ pc[t] = "ut_check" /\ pc'[t] = "ut_load"
           \/ CliCreateStep(t) /\ ret'[t].err # ErrEngineNoTokens)
          => file.kind = "state" /\ file.st.AvailableTokens > 0]_vars

\* C7: no refund.  A Client.Create that passed the ledger's check and returns
\* an error leaves the ledger's count in memory one below what it was when
\* the call began, and if the engine was reached, the engine's count and the
\* count in the ledger file too; an Engine.Create that got past the test of
\* useToken lowers the engine's count by exactly one, and goes on to return
\* its error with the count as it is.
C7_NoRefundAfterDebit ==
    [][\A t \in Threads :
          /\ (/\ op[t] = "Client.Create" /\ pc'[t] = "c_ret" /\ pc[t] # "c_ret"
              /\ ret'[t].err \notin {Nil, ErrNoTokens})
             => /\ tm'.state.AvailableTokens = loc[t].pre - 1
                /\ EngineStep(t) /\ ret'[t].err # ErrEngineNoTokens
                      => /\ engine' = loc[t].preE - 1
                         /\ file'.kind = "state"
                         /\ file'.st.AvailableTokens = loc[t].pre - 1
          /\ UtStoreStep(t) => direct'.TokenCount = direct.TokenCount - 1
          /\ EcBodyStep(t) => ret'[t].err # Nil /\ direct' = direct]_vars

\* ------------------------------------------------- the compression engine

ErrUnsupportedAlgorithm == "ErrUnsupportedAlgorithm"
ErrCompression == "ErrCompression"
ErrDecompression == "ErrDecompression"

\* CompressionType values: the two supported tags and one that is not.
ZSTD == "zstd"
GZIP == "gzip"
Algorithms == {ZSTD, GZIP, "lz4"}

\* NewCompressor without the minimum of one worker.
NumWorkersOfNoMinimum(p) == p \div 2

\* NewCompressor: numWorkers, the capacity of the workerPool channel, on a
\* machine of p processing units.
NumWorkersOf(p) == IF p \div 2 = 0 THEN 1 ELSE p \div 2
NumWorkers == NumWorkersOf(ncpu)

\* A channel send that never blocks.
CanSendAlways(n) == TRUE

\* c.workerPool <- struct{}{} can proceed when the channel, holding n
\* elements, is not full.
CanSend(n) == n < NumWorkers

\* sync.Pool.Put on a pool holding n objects: the pool keeps the object, or
\* (being free to drop objects) holds no more than MaxPooled.
Put(n) == IF n < MaxPooled THEN n + 1 ELSE n

SetJob(k, j) == job' = [job EXCEPT ![k] = j]

\* Compress(dst, src, compType) is called on k's Compressor.
CallCompress(k) ==
    /\ job[k].pc = "idle"
    /\ \E a \in Algorithms :
          SetJob(k, [job[k] EXCEPT !.pc = "acquire", !.dir = "Compress", !.alg = a])
    /\ UNCHANGED <<ncpu, workerPool, zstdEncoder, zstdDecoder, otherVars>>

\* Decompress(dst, src, compType) is called on k's Compressor.
CallDecompress(k) ==
    /\ job[k].pc = "idle"
    /\ \E a \in Algorithms :
          SetJob(k, [job[k] EXCEPT !.pc = "acquire", !.dir = "Decompress", !.alg = a])
    /\ UNCHANGED <<ncpu, workerPool, zstdEncoder, zstdDecoder, otherVars>>

\* c.workerPool <- struct{}{}: blocks while the channel is full.
Acquire(k) ==
    /\ job[k].pc = "acquire"
    /\ CanSend(workerPool[job[k].c])
    /\ workerPool' = [workerPool EXCEPT ![job[k].c] = @ + 1]
    /\ SetJob(k, [job[k] EXCEPT !.pc = "switch"])
    /\ UNCHANGED <<ncpu, zstdEncoder, zstdDecoder, otherVars>>

\* A switch on compType whose default case falls back to gzip.
CompressSwitchFallback(k) ==
    /\ job[k].pc = "switch" /\ job[k].dir = "Compress"
    /\ LET c == job[k].c
       IN  IF job[k].alg = ZSTD
           THEN /\ \E pooled \in BOOLEAN :
                      /\ pooled => zstdEncoder[c] > 0
                      /\ zstdEncoder' = IF pooled
                                        THEN [zstdEncoder EXCEPT ![c] = @ - 1]
                                        ELSE zstdEncoder
                /\ SetJob(k, [job[k] EXCEPT !.pc = "copy", !.held = "encoder"])
           ELSE /\ SetJob(k, [job[k] EXCEPT !.pc = "copy", !.held = "gzip"])
                /\ UNCHANGED zstdEncoder
    /\ UNCHANGED <<ncpu, workerPool, zstdDecoder, otherVars>>

\* Compress, the switch on compType: a zstd encoder from the pool (or a new
\* one) is reset onto the destination; a gzip writer is made; any other tag
\* returns ErrUnsupportedAlgorithm.
CompressSwitch(k) ==
    /\ job[k].pc = "switch" /\ job[k].dir = "Compress"
    /\ LET c == job[k].c
       IN  CASE job[k].alg = ZSTD ->
                  /\ \E pooled \in BOOLEAN :
                        /\ pooled => zstdEncoder[c] > 0
                        /\ zstdEncoder' = IF pooled
                                          THEN [zstdEncoder EXCEPT ![c] = @ - 1]
                                          ELSE zstdEncoder
                  /\ SetJob(k, [job[k] EXCEPT !.pc = "copy", !.held = "encoder"])
             [] job[k].alg = GZIP ->
                  /\ SetJob(k, [job[k] EXCEPT !.pc = "copy", !.held = "gzip"])
                  /\ UNCHANGED zstdEncoder
             [] OTHER ->
                  /\ SetJob(k, [job[k] EXCEPT !.pc = "return",
                                              !.err = ErrUnsupportedAlgorithm, !.n = 0])
                  /\ UNCHANGED zstdEncoder
    /\ UNCHANGED <<ncpu, workerPool, zstdDecoder, otherVars>>

\* Compress: io.Copy(compWriter, src) succeeds or fails; from here on the
\* destination may have been written to.
CompressCopy(k) ==
    /\ job[k].pc = "copy" /\ job[k].dir = "Compress"
    /\ \E ok \in BOOLEAN :
          IF ok
          THEN SetJob(k, [job[k] EXCEPT !.pc = "close", !.wrote = TRUE])
          ELSE SetJob(k, [job[k] EXCEPT !.pc = "return", !.wrote = TRUE,
                                        !.err = ErrCompression, !.n = 0,
                                        !.cause = "io.Copy error"])
    /\ UNCHANGED <<ncpu, workerPool, zstdEncoder, zstdDecoder, otherVars>>

\* A Close whose error is dropped.
CompressCloseSwallowing(k) ==
    /\ job[k].pc = "close"
    /\ \E ok \in BOOLEAN :
          IF ok
          THEN SetJob(k, [job[k] EXCEPT !.pc = "return", !.err = Nil, !.n = 1])
          ELSE SetJob(k, [job[k] EXCEPT !.pc = "return", !.err = Nil, !.n = 1,
                                        !.cause = "Close error"])
    /\ UNCHANGED <<ncpu, workerPool, zstdEncoder, zstdDecoder, otherVars>>

\* Compress: compWriter.Close() flushes; the count of bytes written is
\* returned on success.
CompressClose(k) ==
    /\ job[k].pc = "close"
    /\ \E ok \in BOOLEAN :
          IF ok
          THEN SetJob(k, [job[k] EXCEPT !.pc = "return", !.err = Nil, !.n = 1])
          ELSE SetJob(k, [job[k] EXCEPT !.pc = "return",
                                        !.err = ErrCompression, !.n = 0,
                                        !.cause = "Close error"])
    /\ UNCHANGED <<ncpu, workerPool, zstdEncoder, zstdDecoder, otherVars>>

\* Decompress, the switch on compType.  zstd: a decoder from the pool (or a
\* new one) is reset onto the source; Reset fails on a decoder that has been
\* closed, and the call is left to put the decoder back and return.  gzip:
\* gzip.NewReader reads the header and may fail.  Any other tag returns
\* ErrUnsupportedAlgorithm.
DecompressSwitch(k) ==
    /\ job[k].pc = "switch" /\ job[k].dir = "Decompress"
    /\ LET c == job[k].c
       IN  CASE job[k].alg = ZSTD ->
                  \E pooled \in BOOLEAN :
                     /\ pooled => zstdDecoder[c] > 0
                     /\ zstdDecoder' = IF pooled
                                       THEN [zstdDecoder EXCEPT ![c] = @ - 1]
                                       ELSE zstdDecoder
                     /\ IF pooled
                        THEN SetJob(k, [job[k] EXCEPT !.pc = "return",
                                                      !.held = "decoder",
                                                      !.err = ErrDecompression,
                                                      !.n = 0,
                                                      !.cause = "zstd.ErrDecoderClosed"])
                        ELSE SetJob(k, [job[k] EXCEPT !.pc = "copy",
                                                      !.held = "decoder"])
             [] job[k].alg = GZIP ->
                  /\ \E ok \in BOOLEAN :
                        IF ok
                        THEN SetJob(k, [job[k] EXCEPT !.pc = "copy", !.held = "gzip"])
                        ELSE SetJob(k, [job[k] EXCEPT !.pc = "return",
                                                      !.err = ErrDecompression,
                                                      !.n = 0,
                                                      !.cause = "gzip.NewReader error"])
                  /\ UNCHANGED zstdDecoder
             [] OTHER ->
                  /\ SetJob(k, [job[k] EXCEPT !.pc = "return",
                                              !.err = ErrUnsupportedAlgorithm, !.n = 0])
                  /\ UNCHANGED zstdDecoder
    /\ UNCHANGED <<ncpu, workerPool, zstdEncoder, otherVars>>

\* Decompress: io.Copy(dst, compReader) succeeds and its count is returned,
\* or fails; the destination may have been written to.
DecompressCopy(k) ==
    /\ job[k].pc = "copy" /\ job[k].dir = "Decompress"
    /\ \E ok \in BOOLEAN :
          IF ok
          THEN SetJob(k, [job[k] EXCEPT !.pc = "return", !.wrote = TRUE,
                                        !.err = Nil, !.n = 1])
          ELSE SetJob(k, [job[k] EXCEPT !.pc = "return", !.wrote = TRUE,
                                        !.err = ErrDecompression, !.n = 0,
                                        !.cause = "io.Copy error"])
    /\ UNCHANGED <<ncpu, workerPool, zstdEncoder, zstdDecoder, otherVars>>

\* The zstd objects a call may hold.
Pooled == {"encoder", "decoder"}

\* The call is over but for its deferred functions, which run last first.
\* The one registered last closes the zstd object and puts it back into its
\* pool (after a failed Reset the Put is the statement before the return);
\* the permit is still in the channel.
PutBack(k) ==
    /\ job[k].pc = "return" /\ job[k].held \in Pooled
    /\ LET c == job[k].c
       IN  /\ zstdEncoder' = IF job[k].held = "encoder"
                             THEN [zstdEncoder EXCEPT ![c] = Put(@)]
                             ELSE zstdEncoder
           /\ zstdDecoder' = IF job[k].held = "decoder"
                             THEN [zstdDecoder EXCEPT ![c] = Put(@)]
                             ELSE zstdDecoder
    /\ SetJob(k, [job[k] EXCEPT !.held = "none"])
    /\ UNCHANGED <<ncpu, workerPool, otherVars>>

\* A return that gives the permit back only when the call succeeded.
ReturnKeepingPermitOnError(k) ==
    /\ job[k].pc = "return" /\ job[k].held \notin Pooled
    /\ workerPool' = IF job[k].err = Nil
                     THEN [workerPool EXCEPT ![job[k].c] = @ - 1]
                     ELSE workerPool
    /\ SetJob(k, NoJob(job[k].c))
    /\ UNCHANGED <<ncpu, zstdEncoder, zstdDecoder, otherVars>>

\* A return that leaves the permit in the channel.
ReturnLeakingPermit(k) ==
    /\ job[k].pc = "return" /\ job[k].held \notin Pooled
    /\ UNCHANGED workerPool
    /\ SetJob(k, NoJob(job[k].c))
    /\ UNCHANGED <<ncpu, zstdEncoder, zstdDecoder, otherVars>>

\* The deferred function registered first (a gzip writer or reader, which no
\* other call can reach, has been closed): the permit is taken out of the
\* channel, and the call returns job[k].n and job[k].err.
Return(k) ==
    /\ job[k].pc = "return" /\ job[k].held \notin Pooled
    /\ workerPool' = [workerPool EXCEPT ![job[k].c] = @ - 1]
    /\ SetJob(k, NoJob(job[k].c))
    /\ UNCHANGED <<ncpu, zstdEncoder, zstdDecoder, otherVars>>

InitCompressor ==
    /\ file = AbsentFile
    /\ tm = [up |-> FALSE, state |-> ZeroState, err |-> "none"]
    /\ mu = 0
    /\ now = 1
    /\ pc = [t \in Threads |-> "idle"]
    /\ op = [t \in Threads |-> "none"]
    /\ ret = [t \in Threads |-> NoRet]
    /\ loc = [t \in Threads |-> NoLoc]
    /\ hist = [calls |-> 0, started |-> 0, acked |-> 0, n0 |-> 0,
               synced |-> FALSE, wfail |-> FALSE, crashes |-> 0,
               dN0 |-> 0, dCalls |-> 0, dOk |-> 0, dPass |-> 0]
    /\ client = NoClient
    /\ engine = 0
    /\ rw = FreeRW
    /\ direct = NoEngine
    /\ archive = "absent"
    /\ ncpu \in 1..MaxCPU
    /\ NewPools
    /\ NoStream

NextCompressor ==
    \E k \in Callers :
       \/ CallCompress(k)
       \/ CallDecompress(k)
       \/ Acquire(k)
       \/ CompressSwitch(k)
       \/ CompressCopy(k)
       \/ CompressClose(k)
       \/ DecompressSwitch(k)
       \/ DecompressCopy(k)
       \/ PutBack(k)
       \/ Return(k)

SpecCompressor == InitCompressor /\ [][NextCompressor]_vars

\* The calls on Compressor c that are past c.workerPool <- struct{}{} and
\* have not yet returned.
Active(c) ==
    {k \in Callers : job[k].c = c /\ job[k].pc \notin {"idle", "acquire"}}

\* C10: the concurrent bound.  For each Compressor, the Compress and
\* Decompress calls that are past the permit acquisition are never more than
\* the configured permit count, and each of them holds one of the permits in
\* the channel.
C10_ConcurrentBound ==
    \A c \in Compressors :
       /\ Cardinality(Active(c)) <= NumWorkers
       /\ Cardinality(Active(c)) = workerPool[c]

\* C10's case: more calls have been issued on one Compressor than it has
\* permits; the permits are all taken, by a Compress and a Decompress among
\* others, and a further call is waiting.
C10_Witness ==
    \E c \in Compressors :
       /\ NumWorkers >= 2
       /\ Cardinality(Active(c)) = NumWorkers
       /\ \E k \in Active(c) : job[k].dir = "Compress"
       /\ \E k \in Active(c) : job[k].dir = "Decompress"
       /\ \E k \in Callers : job[k].c = c /\ job[k].pc = "acquire"

\* The tags the switch has a case for.
Supported == {ZSTD, GZIP}

\* C11: an unsupported algorithm tag.  A Compress or Decompress call whose
\* tag is neither zstd nor gzip leaves the switch with ErrUnsupportedAlgorithm
\* and a byte count of 0, holding no codec object and with the pools as they
\* were; it never reaches the streaming steps, never writes to the
\* destination, and its return leaves the pools untouched.
C11_UnsupportedAlgorithm ==
    [][\A k \in Callers :
          /\ (/\ job[k].pc = "switch" /\ job[k].alg \notin Supported
              /\ job'[k] # job[k])
             => /\ job'[k].pc = "return"
                /\ job'[k].err = ErrUnsupportedAlgorithm
                /\ job'[k].n = 0
                /\ UNCHANGED <<zstdEncoder, zstdDecoder>>
          /\ job'[k].alg \notin Supported \cup {"none"}
             => /\ job'[k].pc \in {"acquire", "switch", "return"}
                /\ job'[k].held = "none"
                /\ ~job'[k].wrote
          /\ (/\ job[k].pc = "return" /\ job[k].alg \notin Supported
              /\ job'[k] # job[k])
             => /\ job[k].err = ErrUnsupportedAlgorithm /\ job[k].n = 0
                /\ UNCHANGED <<zstdEncoder, zstdDecoder>>]_vars

\* C11's case: a Compress and a Decompress, both called with the tag "lz4",
\* are about to return ErrUnsupportedAlgorithm and 0, nothing written.
C11_Witness ==
    \E k, l \in Callers :
       /\ job[k].dir = "Compress" /\ job[l].dir = "Decompress"
       /\ \A m \in {k, l} :
             /\ job[m].alg = "lz4" /\ job[m].pc = "return"
             /\ job[m].err = ErrUnsupportedAlgorithm /\ job[m].n = 0
             /\ ~job[m].wrote

\* ------------------------------------------------------- the binary codec

\* MagicNumber = 0x4E534D01 and its four bytes in the file, first byte first.
MagicNumber == 1314082049
MagicBytes == <<78, 83, 77, 1>>
HeaderSize == 64

\* The format version this codec writes and understands ("NSM v1").
SupportedVersion == 1

ErrArchiveRead == "ErrArchiveRead"
ErrInvalidFormat == "ErrInvalidFormat"

\* binary.BigEndian: the unsigned value of a byte sequence, first byte most
\* significant.
RECURSIVE BigEndian(_)
BigEndian(b) ==
    IF b = <<>> THEN 0
    ELSE BigEndian(SubSeq(b, 1, Len(b) - 1)) * 256 + b[Len(b)]

\* The int64 that eight bytes stand for.
GetInt64(b) ==
    IF b[1] < 128 THEN BigEndian(b)
    ELSE 0 - BigEndian([i \in 1..Len(b) |-> 255 - b[i]]) - 1

\* A Header, field by field.
Header(m, v, ct, et, ts, io, il, ck) ==
    [Magic |-> m, Version |-> v, CompressionType |-> ct, EncryptionType |-> et,
     Timestamp |-> ts, IndexOffset |-> io, IndexLength |-> il, DataChecksum |-> ck]

\* binary.Read(r, binary.BigEndian, h) on HeaderSize bytes: the fields in
\* declaration order, 4+2+1+1+8+8+8+32 bytes.
DecodeHeader(b) ==
    Header(BigEndian(SubSeq(b, 1, 4)), BigEndian(SubSeq(b, 5, 6)), b[7], b[8],
           GetInt64(SubSeq(b, 9, 16)), GetInt64(SubSeq(b, 17, 24)),
           GetInt64(SubSeq(b, 25, 32)), SubSeq(b, 33, 64))

\* The *Header of a failed read.
NilHeader == Header(0, 0, 0, 0, 0, 0, 0, <<>>)

\* ReadHeader that returns whatever it decoded.
ReadHeaderUnchecked(b) ==
    IF Len(b) = 0
    THEN [err |-> ErrArchiveRead, cause |-> "none", nil |-> TRUE,
          h |-> NilHeader, n |-> 0]
    ELSE IF Len(b) < HeaderSize
    THEN [err |-> ErrArchiveRead, cause |-> "io.ErrUnexpectedEOF", nil |-> TRUE,
          h |-> NilHeader, n |-> Len(b)]
    ELSE [err |-> Nil, cause |-> "none", nil |-> FALSE,
          h |-> DecodeHeader(SubSeq(b, 1, HeaderSize)), n |-> HeaderSize]

\* ReadHeader that looks at the magic as soon as it has four bytes, before
\* the rest of the header is read.
ReadHeaderMagicFirst(b) ==
    IF Len(b) = 0
    THEN [err |-> ErrArchiveRead, cause |-> "none", nil |-> TRUE,
          h |-> NilHeader, n |-> 0]
    ELSE IF Len(b) >= 4 /\ BigEndian(SubSeq(b, 1, 4)) # MagicNumber
    THEN [err |-> ErrInvalidFormat, cause |-> "none", nil |-> TRUE,
          h |-> NilHeader, n |-> 4]
    ELSE IF Len(b) < HeaderSize
    THEN [err |-> ErrArchiveRead, cause |-> "io.ErrUnexpectedEOF", nil |-> TRUE,
          h |-> NilHeader, n |-> Len(b)]
    ELSE [err |-> Nil, cause |-> "none", nil |-> FALSE,
          h |-> DecodeHeader(SubSeq(b, 1, HeaderSize)), n |-> HeaderSize]

\* ReadHeader(r) on a reader holding the bytes b: [err, cause, nil, h, n],
\* the error and what it wraps, whether the *Header is nil, the header, and
\* the number of bytes taken from the reader.  An empty reader gives io.EOF,
\* a short one io.ErrUnexpectedEOF, both reported as ErrArchiveRead; then the
\* magic is compared.
ReadHeader(b) ==
    IF Len(b) = 0
    THEN [err |-> ErrArchiveRead, cause |-> "none", nil |-> TRUE,
          h |-> NilHeader, n |-> 0]
    ELSE IF Len(b) < HeaderSize
    THEN [err |-> ErrArchiveRead, cause |-> "io.ErrUnexpectedEOF", nil |-> TRUE,
          h |-> NilHeader, n |-> Len(b)]
    ELSE LET h == DecodeHeader(SubSeq(b, 1, HeaderSize))
         IN  IF h.Magic # MagicNumber
             THEN [err |-> ErrInvalidFormat, cause |-> "none", nil |-> TRUE,
                   h |-> NilHeader, n |-> HeaderSize]
             ELSE [err |-> Nil, cause |-> "none", nil |-> FALSE,
                   h |-> h, n |-> HeaderSize]

\* The readers ReadHeader is tried on: every choice of four leading bytes out
\* of the magic's own and zero, every choice of the two version bytes, zeros
\* after them, cut at lengths around the fields and the header size.
LeadBytes == {0, 1, 77, 78, 83}
VersionBytes == {0, 1, 2}
Lengths == {0, 1, 3, 4, 5, 6, HeaderSize - 1, HeaderSize, HeaderSize + MaxExtra}
Zeros(n) == [i \in 1..n |-> 0]
Readers ==
    {SubSeq(m \o v \o Zeros(HeaderSize + MaxExtra - 6), 1, l) :
        m \in [1..4 -> LeadBytes], v \in [1..2 -> VersionBytes], l \in Lengths}

\* The ledger, the client and the threads as they are before any use.
Unused ==
    /\ file = AbsentFile
    /\ tm = [up |-> FALSE, state |-> ZeroState, err |-> "none"]
    /\ mu = 0
    /\ now = 1
    /\ pc = [t \in Threads |-> "idle"]
    /\ op = [t \in Threads |-> "none"]
    /\ ret = [t \in Threads |-> NoRet]
    /\ loc = [t \in Threads |-> NoLoc]
    /\ hist = [calls |-> 0, started |-> 0, acked |-> 0, n0 |-> 0,
               synced |-> FALSE, wfail |-> FALSE, crashes |-> 0,
               dN0 |-> 0, dCalls |-> 0, dOk |-> 0, dPass |-> 0]
    /\ client = NoClient
    /\ engine = 0
    /\ rw = FreeRW
    /\ direct = NoEngine
    /\ archive = "absent"

ErrArchiveWrite == "ErrArchiveWrite"

\* binary.BigEndian.PutUintN: the w bytes of the unsigned value v, most
\* significant first.
RECURSIVE PutUint(_, _)
PutUint(v, w) ==
    IF w = 0 THEN <<>> ELSE PutUint(v \div 256, w - 1) \o <<v % 256>>

\* The eight bytes of an int64: two's complement for a negative value.
PutInt64(v) ==
    IF v >= 0 THEN PutUint(v, 8)
    ELSE LET c == PutUint((0 - v) - 1, 8) IN [i \in 1..8 |-> 255 - c[i]]

\* An encoding that writes IndexLength before IndexOffset.
EncodeHeaderSwapped(h) ==
    PutUint(h.Magic, 4) \o PutUint(h.Version, 2)
       \o <<h.CompressionType, h.EncryptionType>>
       \o PutInt64(h.Timestamp) \o PutInt64(h.IndexLength)
       \o PutInt64(h.IndexOffset) \o h.DataChecksum

\* An encoding that packs the int64 fields into four bytes each.
EncodeHeaderPacked(h) ==
    PutUint(h.Magic, 4) \o PutUint(h.Version, 2)
       \o <<h.CompressionType, h.EncryptionType>>
       \o SubSeq(PutInt64(h.Timestamp), 5, 8) \o SubSeq(PutInt64(h.IndexOffset), 5, 8)
       \o SubSeq(PutInt64(h.IndexLength), 5, 8) \o h.DataChecksum

\* binary.Write(w, binary.BigEndian, h): the fields in declaration order,
\* each in its fixed width.
EncodeHeader(h) ==
    PutUint(h.Magic, 4) \o PutUint(h.Version, 2)
       \o <<h.CompressionType, h.EncryptionType>>
       \o PutInt64(h.Timestamp) \o PutInt64(h.IndexOffset)
       \o PutInt64(h.IndexLength) \o h.DataChecksum

\* What the io.Writer does with the one Write it is given: it takes all the
\* bytes, it takes none and fails, or it takes all but the last and fails.
WriterOutcomes == {"ok", "closed", "short"}

\* WriteHeader(w, h): [err, bytes, n], the error, the bytes the writer took
\* and their number.  The Header is not validated.
WriteHeader(h, o) ==
    LET b == EncodeHeader(h)
        took == CASE o = "ok" -> b
                  [] o = "closed" -> <<>>
                  [] OTHER -> SubSeq(b, 1, Len(b) - 1)
    IN  [err |-> IF o = "ok" THEN Nil ELSE ErrArchiveWrite,
         bytes |-> took, n |-> Len(took)]

\* The Headers handed to WriteHeader: with the magic and without, versions
\* around the supported one, int64 fields zero, positive and negative, and
\* two checksums.
Ones(n) == [i \in 1..n |-> 255]
Headers ==
    {Header(m, v, ct, et, ts, io, il, ck) :
        m \in {MagicNumber, MagicNumber - 1, 0},
        v \in {0, SupportedVersion, 65535},
        ct \in {0, 255}, et \in {0, 1},
        ts \in {0 - 1, 0, 1777000000},
        io \in {0 - 64, HeaderSize, 65536},
        il \in {0, 300},
        ck \in {Zeros(32), Ones(32)}}

\* WriteHeader is called on an empty stream with the Header given.
WriteHeaderCall ==
    /\ wr.given /\ ~wr.done /\ ~rd.done
    /\ \E o \in WriterOutcomes :
          LET r == WriteHeader(wr.h, o)
          IN  /\ stream' = stream \o r.bytes
              /\ wr' = [wr EXCEPT !.done = TRUE, !.err = r.err, !.n = r.n]
    /\ UNCHANGED <<rd, ledgerVars, threadVars, hist, clientVars, codecVars>>

\* ReadHeader is called on the reader.
ReadHeaderCall ==
    /\ ~rd.done
    /\ LET r == ReadHeader(stream)
       IN  rd' = [done |-> TRUE, err |-> r.err, cause |-> r.cause, nil |-> r.nil,
                  h |-> r.h, n |-> r.n]
    /\ UNCHANGED <<stream, wr, ledgerVars, threadVars, hist, clientVars, codecVars>>

\* Either a reader is given to ReadHeader, or a Header to WriteHeader, whose
\* bytes ReadHeader then reads back.
InitFormat ==
    /\ Unused
    /\ ncpu = 1
    /\ NewPools
    /\ rd = NoRead
    /\ \/ stream \in Readers /\ wr = NoWrite
       \/ /\ stream = <<>>
          /\ \E h \in Headers : wr = [NoWrite EXCEPT !.given = TRUE, !.h = h]

NextFormat == ReadHeaderCall \/ WriteHeaderCall

SpecFormat == InitFormat /\ [][NextFormat]_vars

\* C12: the magic check.  Once ReadHeader has run on a reader of at least
\* HeaderSize bytes whose first four bytes are not the magic's, it has failed
\* with ErrInvalidFormat and returned no header; and whenever it has returned
\* a header, the reader began with the magic's bytes, the error is nil and
\* the header's Magic is MagicNumber.
C12_MagicChecked ==
    rd.done =>
       /\ (Len(stream) >= HeaderSize /\ SubSeq(stream, 1, 4) # MagicBytes)
          => rd.err = ErrInvalidFormat /\ rd.nil
       /\ ~rd.nil
          => /\ Len(stream) >= HeaderSize
             /\ SubSeq(stream, 1, 4) = MagicBytes
             /\ rd.err = Nil
             /\ rd.h.Magic = MagicNumber

\* C12's case: a full-size reader holding the magic's bytes in reverse order
\* has been refused with ErrInvalidFormat.
C12_Witness ==
    /\ rd.done /\ Len(stream) = HeaderSize + MaxExtra
    /\ SubSeq(stream, 1, 4) = <<1, 77, 83, 78>>
    /\ rd.err = ErrInvalidFormat /\ rd.nil

\* The error the specification names for a version this codec does not
\* understand.
ErrUnsupportedVersion == "ErrUnsupportedVersion"

\* C13: the version check.  Once ReadHeader has run on a full header that
\* carries the magic and a version above SupportedVersion, it has failed
\* with ErrUnsupportedVersion and returned no header.
C13_VersionChecked ==
    (/\ rd.done /\ Len(stream) >= HeaderSize
     /\ SubSeq(stream, 1, 4) = MagicBytes
     /\ BigEndian(SubSeq(stream, 5, 6)) > SupportedVersion)
    => rd.err = ErrUnsupportedVersion /\ rd.nil

\* ------------------------------------- properties of Extract and Search

\* Thread t takes the step that runs the whole of Engine.Extract, or of
\* Engine.Search, on the file f.
DirectExtractStep(t, f) ==
    pc[t] = "idle" /\ op'[t] = "Engine.Extract" /\ loc'[t].arg = f
DirectSearchStep(t, f) ==
    pc[t] = "idle" /\ op'[t] = "Engine.Search" /\ loc'[t].arg = f

\* C14: magic validation at the engine level.  Extract applied to 128 bytes
\* that do not begin with the magic fails with ErrInvalidFormat and writes
\* nothing.
C14_ExtractRefusesNonArchive ==
    [][\A t \in Threads :
          DirectExtractStep(t, "garbage")
          => ret'[t].err = ErrInvalidFormat /\ archive' = archive]_vars

\* C15: the round trip.  A Create on an Engine holding at least one token
\* succeeds and leaves the archive written, and an Extract of a well-formed
\* archive succeeds.
C15_RoundTrip ==
    [][\A t \in Threads :
          /\ EcBodyStep(t)
             => ret'[t].err = Nil /\ archive' = "written"
          /\ DirectExtractStep(t, "archive") => ret'[t].err = Nil]_vars

\* The error the specification names for a Data Block that does not match
\* the header's checksum.
ErrChecksumMismatch == "ErrChecksumMismatch"

\* C16: checksum sensitivity.  Extract applied to an archive in which one
\* bit of the Data Block was flipped fails with ErrChecksumMismatch.
C16_ExtractVerifiesChecksum ==
    [][\A t \in Threads :
          DirectExtractStep(t, "flipped")
          => ret'[t].err = ErrChecksumMismatch]_vars

\* C17: search.  Search for a text that one file of the archive holds, and
\* only that one, returns without error and returns one path.
C17_SearchFindsTheFile ==
    [][\A t \in Threads :
          DirectSearchStep(t, "archive")
          => ret'[t].err = Nil /\ ret'[t].n = 1]_vars

\* ---------------------------------------- properties of the codec's calls

\* Caller k's call moves on by one step.
Steps(k) == job'[k] # job[k]

\* C18: one permit per call.  The step that acquires adds exactly one permit
\* to the Compressor's channel; the steps of a call between acquisition and
\* return, the putting back of a zstd object included, leave the channel
\* alone; a call ends only from its return step, whatever it returns, and
\* that step takes exactly one permit out; the
\* channel never holds a negative number, and after a step that leaves no
\* call in progress it holds none.
C18_OnePermitPerCall ==
    [][/\ \A k \in Callers :
             LET c == job[k].c
             IN  /\ (Steps(k) /\ job[k].pc = "acquire")
                    => /\ job'[k].pc = "switch"
                       /\ workerPool'[c] = workerPool[c] + 1
                 /\ (Steps(k) /\ job[k].pc \in {"switch", "copy", "close"})
                    => /\ job'[k].pc \in {"copy", "close", "return"}
                       /\ workerPool' = workerPool
                 /\ (Steps(k) /\ job[k].pc = "return")
                    => \/ /\ job[k].held \in Pooled
                          /\ job'[k] = [job[k] EXCEPT !.held = "none"]
                          /\ workerPool' = workerPool
                       \/ /\ job'[k].pc = "idle"
                          /\ workerPool'[c] = workerPool[c] - 1
                 /\ (Steps(k) /\ job'[k].pc = "idle") => job[k].pc = "return"
       /\ \A c \in Compressors : workerPool'[c] >= 0
       /\ (\A k \in Callers : job'[k].pc \in {"idle", "acquire"})
          => \A c \in Compressors : workerPool'[c] = 0]_vars

\* C18's case: two calls hold the two permits of a Compressor, both on error
\* paths -- a Decompress whose decoder could not be reset and a Compress
\* whose flush failed -- and are about to return.
C18_Witness ==
    \E k, l \in Callers :
       /\ job[k].pc = "return" /\ job[k].dir = "Decompress"
       /\ job[k].cause = "zstd.ErrDecoderClosed"
       /\ job[l].pc = "return" /\ job[l].dir = "Compress"
       /\ job[l].cause = "Close error"
       /\ job[k].c = job[l].c /\ workerPool[job[k].c] = 2

\* C19: recycled codec objects are reusable.  Every zstd call gets past the
\* reset of its codec object, whether the object is new or came from the
\* pool: the switch of a zstd call always leads to the streaming step.
C19_PooledObjectsReusable ==
    [][\A k \in Callers :
          (Steps(k) /\ job[k].pc = "switch" /\ job[k].alg = ZSTD)
          => job'[k].pc = "copy" /\ job'[k].cause = "none"]_vars

\* C20: no streaming error is swallowed.  A call to which a stream has given
\* an error returns an error and a count of 0: ErrCompression from Compress,
\* ErrDecompression from Decompress; and a call that returns nil has had no
\* error from its streams.
C20_StreamErrorsSurface ==
    \A k \in Callers :
       /\ (job[k].pc = "return" /\ job[k].cause # "none")
          => /\ job[k].n = 0
             /\ job[k].err = IF job[k].dir = "Compress"
                             THEN ErrCompression ELSE ErrDecompression
       /\ (job[k].pc = "return" /\ job[k].err = Nil)
          => job[k].cause = "none" /\ job[k].n = 1

\* C20's case: a Compress whose flush failed and a Decompress whose copy
\* failed are about to return their errors.
C20_Witness ==
    \E k, l \in Callers :
       /\ job[k].pc = "return" /\ job[k].dir = "Compress"
       /\ job[k].cause = "Close error" /\ job[k].err = ErrCompression
       /\ job[l].pc = "return" /\ job[l].dir = "Decompress"
       /\ job[l].cause = "io.Copy error" /\ job[l].err = ErrDecompression

\* ------------------------------------------- properties of the Engine alone

\* C22: every Engine.Create returns an error and creates no output file.  On
\* an Engine of one's own, in the Client's engine, and from the command line:
\* with a count <= 0 the call returns the no-tokens error and leaves the
\* count as it was; with a count > 0 it takes exactly one token and returns
\* the "not fully implemented" error.  The output path is never touched.
C22_CreateAlwaysFails ==
    [][\A t \in Threads :
          /\ UtCheckStep(t) =>
                /\ UNCHANGED <<direct, archive>>
                /\ IF direct.TokenCount <= 0
                   THEN ret'[t].err = ErrEngineNoTokens /\ pc'[t] = "done"
                   ELSE pc'[t] = "ut_load"
          /\ UtStoreStep(t) =>
                /\ archive' = archive
                /\ direct'.TokenCount = direct.TokenCount - 1
          /\ EcBodyStep(t) =>
                /\ ret'[t].err = ErrCreateNotImplemented
                /\ UNCHANGED <<direct, archive>>
          /\ EngineStep(t) =>
                /\ ret'[t].err # Nil
                /\ archive' = archive
                /\ IF engine <= 0
                   THEN ret'[t].err = ErrEngineNoTokens /\ engine' = engine
                   ELSE /\ ret'[t].err = ErrCreateNotImplemented
                        /\ engine' = engine - 1
          /\ CliCreateStep(t) =>
                /\ ret'[t].err = ErrCreateNotImplemented
                /\ archive' = archive]_vars

\* ------------------------------------------------- building an Engine

\* core.NewEngine(cfg): with a nil cfg, or with a Config whose TokenCount is
\* n.  loc[t].arg and loc[t].pre keep what was passed.
CallNewEngine(t) ==
    /\ ~direct.up /\ pc[t] = "idle" /\ Budget
    /\ \E isNil \in BOOLEAN, n \in DirectConfigs :
          LET r == NewEngine(isNil, n)
          IN  /\ isNil => n = 0
              /\ direct' = IF r.err = Nil
                           THEN [up |-> TRUE, TokenCount |-> r.TokenCount]
                           ELSE direct
              /\ SetRet(t, r.err, 0)
              /\ loc' = [loc EXCEPT ![t].arg = IF isNil THEN "nil" ELSE "config",
                                    ![t].pre = n]
              /\ hist' = [Spend EXCEPT !.dN0 = n]
    /\ SetPc(t, "done")
    /\ op' = [op EXCEPT ![t] = "NewEngine"]
    /\ UNCHANGED <<ledgerVars, client, engine, rw, archive>>

InitEngine ==
    /\ file = AbsentFile
    /\ tm = [up |-> FALSE, state |-> ZeroState, err |-> "none"]
    /\ mu = 0
    /\ now = 1
    /\ pc = [t \in Threads |-> "idle"]
    /\ op = [t \in Threads |-> "none"]
    /\ ret = [t \in Threads |-> NoRet]
    /\ loc = [t \in Threads |-> NoLoc]
    /\ hist = [calls |-> 0, started |-> 0, acked |-> 0, n0 |-> 0,
               synced |-> FALSE, wfail |-> FALSE, crashes |-> 0,
               dN0 |-> 0, dCalls |-> 0, dOk |-> 0, dPass |-> 0]
    /\ client = NoClient
    /\ engine = 0
    /\ rw = FreeRW
    /\ direct = NoEngine
    /\ archive = "absent"
    /\ ncpu = 1
    /\ NewPools
    /\ NoStream

NextEngine ==
    /\ \E t \in Threads :
          \/ CallNewEngine(t)
          \/ CallCreate(t)
          \/ UtCheck(t)
          \/ UtLoad(t)
          \/ UtStore(t)
          \/ EcBody(t)
          \/ Finish(t) /\ UNCHANGED clientVars
    /\ UNCHANGED <<codecVars, formatVars>>

SpecEngine == InitEngine /\ [][NextEngine]_vars

\* Thread t takes the step that runs NewEngine.
NewEngineStep(t) == pc[t] = "idle" /\ op'[t] = "NewEngine"

\* C23: NewEngine.  A nil configuration is refused with the error and no
\* Engine; a configuration with a token count of 0 gives an Engine with one
\* token, and one with a positive count an Engine with that count.  The
\* Engine built over a zero configuration therefore passes the test of
\* useToken at its next Create.
C23_NewEngine ==
    [][\A t \in Threads :
          NewEngineStep(t) =>
             /\ loc'[t].arg = "nil"
                   => ret'[t].err = ErrNilConfig /\ ~direct'.up
             /\ (loc'[t].arg = "config" /\ loc'[t].pre = 0)
                   => /\ ret'[t].err = Nil /\ direct'.up
                      /\ direct'.TokenCount = 1
                      /\ useToken(direct'.TokenCount).err = Nil
             /\ (loc'[t].arg = "config" /\ loc'[t].pre > 0)
                   => /\ ret'[t].err = Nil /\ direct'.up
                      /\ direct'.TokenCount = loc'[t].pre]_vars

\* C23's case: after a NewEngine(nil) that was refused, an Engine was built
\* over a configuration with no tokens, and its first Create has passed
\* useToken and taken the free token.
C23_Witness ==
    \E t, u \in Threads :
       /\ op[t] = "NewEngine" /\ pc[t] = "done" /\ loc[t].arg = "config"
       /\ ret[t].err = Nil /\ hist.dN0 = 0
       /\ op[u] = "Engine.Create" /\ pc[u] = "done"
       /\ ret[u].err = ErrCreateNotImplemented
       /\ direct.up /\ direct.TokenCount = 0
       /\ hist.calls = 3 /\ hist.dCalls = 1 /\ hist.dPass = 1

\* C24: concurrent Engine.Create calls on one Engine.  On an Engine that
\* started with N >= 0 tokens, the configured count is never negative and at
\* most N calls have got past useToken.
C24_UseTokenAtomic ==
    (direct.up /\ StartTokens(hist.dN0) >= 0)
    => /\ direct.TokenCount >= 0
       /\ hist.dPass <= StartTokens(hist.dN0)

\* ------------------------------------- the Client's two counts of tokens

\* C25: the Client's engine never runs dry before its ledger.  Whenever a
\* Client is up, the engine's configured count is at least the ledger's count
\* in memory; and the engine step of a Client.Create, which comes after the
\* ledger's debit, never fails with the engine's own no-tokens error.
C25_EngineCoversLedger ==
    [][/\ client'.up => engine' >= tm'.state.AvailableTokens
       /\ \A t \in Threads :
             EngineStep(t) => ret'[t].err # ErrEngineNoTokens]_vars

\* C25's case: a Client over a ledger of two tokens has run one Create
\* through the ledger and the engine, each of which now holds one token.
C25_Witness ==
    \E t \in Threads :
       /\ client.up
       /\ op[t] = "Client.Create" /\ pc[t] = "c_ret"
       /\ ret[t].err = ErrCreateNotImplemented
       /\ loc[t].pre = 2 /\ loc[t].preE = 2
       /\ tm.state.AvailableTokens = 1 /\ engine = 1

\* ----------------------------------------- more properties of the ledger

\* Thread t's call of the manager returns: the deferred Unlock runs.
Returns(t) == pc[t] = "unlock" /\ pc'[t] = "done"

\* C26: a failed ledger operation neither burns nor grants a token.  When a
\* ConsumeToken or a ValidateOnline returns an error, ErrPersistence
\* included, the count in memory is what the call found.
C26_FailedCallKeepsCount ==
    [][\A t \in Threads :
          (/\ Returns(t)
           /\ op[t] \in {"ConsumeToken", "ValidateOnline"}
           /\ ret[t].err # Nil)
          => tm.state.AvailableTokens = loc[t].pre]_vars

\* No call of the manager is under way: every thread is between calls.
LedgerAtRest == mu = 0 /\ \A t \in Threads : pc[t] \in {"idle", "done"}

\* C27: memory and disk agree.  Whenever a manager is up and no call of it
\* is under way, the ledger file holds a state whose available-token count
\* is the count in memory, failed writes notwithstanding.
C27_MemoryDiskAgree ==
    (tm.up /\ LedgerAtRest)
    => /\ file.kind = "state"
       /\ file.st.AvailableTokens = tm.state.AvailableTokens

\* The first run: there is no ledger file when the process first starts.
InitFirstRun == InitLedger /\ file = AbsentFile

SpecFirstRun == InitFirstRun /\ [][NextLedger]_vars

\* C28: the count is never negative.  From a first run on, whatever the
\* interleaving of ConsumeToken, AvailableTokens and ValidateOnline calls
\* (and across crashes and restarts), the available-token count in memory is
\* at least 0, and so is the count in the ledger file.
C28_CountNeverNegative ==
    /\ tm.state.AvailableTokens >= 0
    /\ file.kind = "state" => file.st.AvailableTokens >= 0

\* C28's case: the free token of the first run has been consumed, and a
\* second ConsumeToken, called while the first was under way, has been
\* refused at a count of zero.
C28_Witness ==
    \E t, u \in Threads :
       /\ tm.up /\ ~hist.synced /\ hist.crashes = 0
       /\ op[t] = "ConsumeToken" /\ pc[t] = "done" /\ ret[t].err = Nil
       /\ op[u] = "ConsumeToken" /\ pc[u] = "done" /\ ret[u].err = ErrNoTokens
       /\ loc[t].pre = 1 /\ loc[u].pre = 0
       /\ tm.state.AvailableTokens = 0

\* Thread t takes a step of the call named o (the call itself, a step of its
\* body, or its return).
StepOf(t, o) == pc'[t] # pc[t] /\ op'[t] = o

\* C29: what the ledger's calls leave alone.  A ConsumeToken that finds a
\* count <= 0 returns ErrNoTokens and none of its steps changes the state in
\* memory (count, license key, sync time) or the ledger file; no step of an
\* AvailableTokens changes either; and a ConsumeToken that returns nil has
\* changed, of the state in memory, the count alone, by exactly -1: its
\* debit is the one step that touches the state in memory, its save the one
\* that touches the file, writing that state.
C29_LedgerFrames ==
    [][\A t \in Threads :
          /\ (StepOf(t, "ConsumeToken") /\ pc[t] # "idle" /\ loc[t].pre <= 0)
                => /\ UNCHANGED <<tm, file>>
                   /\ ret'[t].err = ErrNoTokens
                   /\ pc'[t] \in {"unlock", "done"}
          /\ StepOf(t, "AvailableTokens") => UNCHANGED <<tm, file>>
          /\ (StepOf(t, "ConsumeToken") /\ loc'[t].pre > 0)
                => /\ pc[t] # "ct_dec" => tm' = tm
                   /\ pc[t] # "ct_save" => file' = file
                   /\ pc[t] = "ct_dec" =>
                         tm'.state = [tm.state EXCEPT !.AvailableTokens = @ - 1]
                   /\ (pc[t] = "ct_save" /\ ret'[t].err = Nil) =>
                         file' = StateFile(tm.state)
                   /\ (Returns(t) /\ ret[t].err = Nil) =>
                         /\ tm.state.AvailableTokens = loc[t].pre - 1
                         /\ file = StateFile(tm.state)]_vars

\* C29's case: after a ConsumeToken that took the last token, a second one
\* has been refused and an AvailableTokens has returned 0; memory and file
\* hold the same state, with the sync time of the first run.
C29_Witness ==
    \E t, u \in Threads :
       /\ tm.up /\ hist.acked = 1
       /\ op[t] = "ConsumeToken" /\ pc[t] = "done"
       /\ ret[t].err = ErrNoTokens /\ loc[t].pre = 0
       /\ op[u] = "AvailableTokens" /\ pc[u] = "done" /\ ret[u].n = 0
       /\ tm.state.AvailableTokens = 0 /\ tm.state.LastSync # ZeroTime
       /\ file = StateFile(tm.state)

\* The token counts the remote authority has reported to thread t's
\* ValidateOnline: none.  The request and the decoding of its answer are a
\* placeholder in comments; the method makes no use of tm.client.
RemoteReports(t) == {}

\* C30: ValidateOnline follows the remote authority.  A ValidateOnline that
\* returns nil for a non-empty license key leaves a count that the remote
\* authority reported during the call; and no step of a ValidateOnline
\* raises the count without such a report, so that ValidateOnline calls
\* alone cannot fund ConsumeToken calls.
C30_SyncEqualsRemoteReport ==
    [][\A t \in Threads :
          /\ (/\ Returns(t) /\ op[t] = "ValidateOnline"
              /\ ret[t].err = Nil /\ tm.state.LicenseKey # "")
                => tm.state.AvailableTokens \in RemoteReports(t)
          /\ (/\ StepOf(t, "ValidateOnline")
              /\ tm'.state.AvailableTokens > tm.state.AvailableTokens)
                => RemoteReports(t) # {}]_vars

\* ------------------------------------------- the ledger's construction

\* C31: NewTokenManager fails closed.  Over a file that exists but cannot be
\* read, or cannot be parsed, the construction returns an error
\* (ErrPersistence for the parse failure) and no manager, leaves the file as
\* it is and seeds nothing; a construction changes the file only when there
\* was none.
C31_FailsClosed ==
    [][(~tm.up /\ tm' # tm) =>
          /\ file.kind = "corrupt" =>
                /\ ~tm'.up /\ tm'.err = ErrPersistence
                /\ tm'.state = ZeroState
                /\ file' = file
          /\ file.kind = "unreadable" =>
                /\ ~tm'.up /\ tm'.err \notin {Nil, "none"}
                /\ tm'.state = ZeroState
                /\ file' = file
          /\ file' # file => file.kind = "absent"]_vars

\* C31's case: a process that found a ledger file it could not parse was
\* refused its manager with ErrPersistence; the file is as it was found (no
\* write has failed and nothing has crashed).
C31_Witness ==
    /\ ~tm.up /\ tm.err = ErrPersistence
    /\ file.kind = "corrupt"
    /\ ~hist.wfail /\ hist.crashes = 0 /\ hist.calls = 0

\* ------------------------------------ more properties of the binary codec

\* C32: the magic is looked at only once a whole header has been read.  On a
\* reader shorter than HeaderSize, ReadHeader fails with ErrArchiveRead and
\* returns no header, whatever the first four bytes are; it has taken all
\* the reader had.
C32_ShortInputIsReadFailure ==
    (rd.done /\ Len(stream) < HeaderSize)
    => /\ rd.err = ErrArchiveRead
       /\ rd.nil
       /\ rd.n = Len(stream)

\* C32's case: a reader one byte short of a header, whose first four bytes
\* are not the magic's, has been refused with ErrArchiveRead.
C32_Witness ==
    /\ rd.done /\ Len(stream) = HeaderSize - 1
    /\ SubSeq(stream, 1, 4) # MagicBytes
    /\ rd.err = ErrArchiveRead /\ rd.cause = "io.ErrUnexpectedEOF" /\ rd.nil

\* C33: the serialized header has constant size.  WriteHeader, when the
\* writer takes what it is given, has written exactly HeaderSize bytes, the
\* sum of the field widths, whatever the Header; and ReadHeader on a reader
\* holding at least a header has taken exactly HeaderSize bytes from it,
\* whether it accepted the header or not.
C33_HeaderSizeConstant ==
    /\ (wr.done /\ wr.err = Nil)
       => /\ wr.n = HeaderSize
          /\ wr.n = 4 + 2 + 1 + 1 + 8 + 8 + 8 + 32
          /\ Len(stream) = HeaderSize
    /\ (rd.done /\ Len(stream) >= HeaderSize) => rd.n = HeaderSize

\* C33's case: a Header with the largest version, negative int64 fields and
\* a checksum of 0xFF bytes was written in 64 bytes, and ReadHeader took the
\* 64 bytes back.
C33_Witness ==
    /\ wr.done /\ wr.err = Nil /\ wr.n = 64
    /\ wr.h.Version = 65535 /\ wr.h.Timestamp < 0 /\ wr.h.IndexOffset < 0
    /\ wr.h.DataChecksum = Ones(32)
    /\ rd.done /\ rd.n = 64 /\ Len(stream) = 64

\* C34: the header round trip.  ReadHeader applied to the bytes that
\* WriteHeader wrote for a Header h returns, when h.Magic is MagicNumber, a
\* header equal to h field for field and no error, and fails otherwise with
\* ErrInvalidFormat and no header; WriteHeader itself accepts either h.
C34_HeaderRoundTrip ==
    (wr.done /\ wr.err = Nil /\ rd.done)
    => IF wr.h.Magic = MagicNumber
       THEN rd.err = Nil /\ ~rd.nil /\ rd.h = wr.h
       ELSE rd.err = ErrInvalidFormat /\ rd.nil

\* C34's case: a Header with the magic, a negative Timestamp and a negative
\* IndexOffset has come back from ReadHeader as it was written.
C34_Witness ==
    /\ wr.done /\ wr.err = Nil /\ rd.done /\ rd.err = Nil
    /\ wr.h.Magic = MagicNumber /\ wr.h.Version = SupportedVersion
    /\ wr.h.Timestamp = 0 - 1 /\ wr.h.IndexOffset = 0 - 64
    /\ wr.h.IndexLength = 300 /\ wr.h.CompressionType = 255
    /\ rd.h = wr.h

\* ------------------------------------------------- liveness of the permits

\* The steps of caller k's call between the permit and the return.
InCall(k) ==
    \/ CompressSwitch(k)
    \/ CompressCopy(k)
    \/ CompressClose(k)
    \/ DecompressSwitch(k)
    \/ DecompressCopy(k)
    \/ PutBack(k)
    \/ Return(k)

\* Scheduling.  A goroutine that holds a permit goes on running until its
\* call returns (weak fairness of its steps; the streams it copies are
\* taken to end).  A goroutine blocked in c.workerPool <- struct{}{} waits
\* in the channel's queue of senders, which the runtime serves first come,
\* first served each time a permit is taken out: a sender that could go on
\* again and again does go on (strong fairness of Acquire).
FairCompressor ==
    \A k \in LiveCallers : WF_vars(InCall(k)) /\ SF_vars(Acquire(k))

\* The goroutines that call the Compressor, again and again.
NextCompressorLive ==
    \E k \in LiveCallers :
       \/ CallCompress(k)
       \/ CallDecompress(k)
       \/ Acquire(k)
       \/ InCall(k)

\* The machine on which calls wait most: one processing unit, one permit.
InitCompressorLive == InitCompressor /\ ncpu = 1

SpecCompressorLive ==
    InitCompressorLive /\ [][NextCompressorLive]_vars /\ FairCompressor

\* C35: permit liveness.  Every Compress or Decompress call that waits for a
\* permit eventually has one and eventually returns.
C35_PermitLiveness ==
    \A k \in LiveCallers :
       /\ (job[k].pc = "acquire") ~> (job[k].pc = "switch")
       /\ (job[k].pc = "acquire") ~> (job[k].pc = "return")

\* C35's case: a call waits for a permit while every permit of its
\* Compressor is held by a call that is streaming.
C35_Witness ==
    \E k, l \in LiveCallers :
       /\ job[k].pc = "acquire"
       /\ job[l].pc = "copy" /\ job[l].c = job[k].c
       /\ workerPool[job[k].c] = NumWorkers

\* --------------------------------------------- the number of the permits

\* C36: the capacity of the permit pool.  On a machine of P processing
\* units the channel of a Compressor never holds more than max(1, P div 2)
\* permits and a waiting call can take a permit exactly when it holds fewer:
\* the capacity is max(1, P div 2), which is 1 for P = 1 and never 0.
C36_PermitCapacity ==
    /\ \A c \in Compressors : workerPool[c] <= Max(1, ncpu \div 2)
    /\ \A k \in Callers :
          job[k].pc = "acquire"
          => ((ENABLED Acquire(k)) <=> workerPool[job[k].c] < Max(1, ncpu \div 2))
    /\ ncpu = 1 =>
          \A k \in Callers :
             (job[k].pc = "acquire" /\ workerPool[job[k].c] = 0)
             => ENABLED Acquire(k)

\* C36's case: on a machine of one processing unit a call holds the one
\* permit and streams, and another call waits.
C36_Witness ==
    \E k, l \in Callers :
       /\ ncpu = 1
       /\ job[k].pc = "close" /\ workerPool[job[k].c] = 1
       /\ job[l].pc = "acquire" /\ job[l].c = job[k].c
       /\ ~ENABLED Acquire(l)

\* ------------------------------------------ several Compressors in a process

\* NewCompressor is called once per Compressor, and every call makes a channel
\* of its own: each caller works on either of the two Compressors.
InitCompressorMany ==
    /\ file = AbsentFile
    /\ tm = [up |-> FALSE, state |-> ZeroState, err |-> "none"]
    /\ mu = 0
    /\ now = 1
    /\ pc = [t \in Threads |-> "idle"]
    /\ op = [t \in Threads |-> "none"]
    /\ ret = [t \in Threads |-> NoRet]
    /\ loc = [t \in Threads |-> NoLoc]
    /\ hist = [calls |-> 0, started |-> 0, acked |-> 0, n0 |-> 0,
               synced |-> FALSE, wfail |-> FALSE, crashes |-> 0,
               dN0 |-> 0, dCalls |-> 0, dOk |-> 0, dPass |-> 0]
    /\ client = NoClient
    /\ engine = 0
    /\ rw = FreeRW
    /\ direct = NoEngine
    /\ archive = "absent"
    /\ ncpu \in 1..MaxCPU
    /\ workerPool = [c \in Compressors |-> 0]
    /\ zstdEncoder = [c \in Compressors |-> 0]
    /\ zstdDecoder = [c \in Compressors |-> 0]
    /\ \E f \in [LiveCallers -> Compressors] :
          job = [k \in Callers |-> NoJob(IF k \in LiveCallers THEN f[k] ELSE "c1")]
    /\ NoStream

SpecCompressorMany == InitCompressorMany /\ [][NextCompressorLive]_vars

\* C37: the permit bound is system-wide.  The Compress and Decompress calls
\* that are past the permit acquisition, counted over all the Compressors of
\* the process, are never more than the permit count.
C37_SystemWideBound ==
    Cardinality(UNION {Active(c) : c \in Compressors}) <= NumWorkers

\* --------------------------------------------------- the Client's RWMutex

\* Thread t is inside a Client method that took c.mu and has not returned.
InClient(t) ==
    pc[t] \in {"cc_consume", "cc_engine", "cx_engine", "cs_engine",
               "cb_purchase", "c_ret"}
InCreate(t) == InClient(t) /\ op[t] = "Client.Create"
InShared(t) ==
    InClient(t) /\ op[t] \in {"Client.Extract", "Client.Search", "Client.BuyTokens"}

\* C38: on one Client, no two Create calls overlap and no Create overlaps an
\* Extract, a Search or a BuyTokens; the exclusive lock is held by exactly
\* the thread inside Create and the shared lock by exactly the threads inside
\* Extract, Search or BuyTokens, so that a call that has returned, with an
\* error or without, holds nothing; and while a shared call is in progress
\* and no Create is, another thread can enter Extract and can enter Search.
C38_ClientLocking ==
    /\ \A t, u \in Threads :
          (t # u /\ InCreate(t)) => (~InCreate(u) /\ ~InShared(u))
    /\ \A t \in Threads :
          /\ InClient(t) => (InCreate(t) \/ InShared(t))
          /\ (rw.w = t) <=> InCreate(t)
          /\ (t \in rw.r) <=> InShared(t)
    /\ rw.w \in Threads \cup {0} /\ rw.r \subseteq Threads
    /\ \A t, u \in Threads :
          (InShared(t) /\ pc[u] = "idle" /\ client.up /\ Budget)
          => (ENABLED ClExtractLock(u) /\ ENABLED ClSearchLock(u))

\* C38's case: after an earlier call, a Create is inside the engine holding
\* the exclusive lock, and another thread, with nothing in its way but the
\* lock, can enter neither Create nor Extract nor Search nor BuyTokens.
C38_Witness ==
    \E t, u \in Threads :
       /\ t # u
       /\ InCreate(t) /\ pc[t] = "cc_engine" /\ rw = [w |-> t, r |-> {}]
       /\ pc[u] = "idle" /\ client.up /\ Budget /\ hist.calls >= 2
       /\ ~ENABLED ClCreateLock(u) /\ ~ENABLED ClExtractLock(u)
       /\ ~ENABLED ClSearchLock(u) /\ ~ENABLED ClBuyLock(u)

====
